---- MODULE Spec2Model ----
(***************************************************************************)
(* Data quality checker: the Checker (internal/checker/checker.go) runs   *)
(* one SQL query per check over a file-backed table and hands the outcome *)
(* to the Logger (internal/db), which appends it to a single-table store. *)
(*                                                                         *)
(* A SQL cell is an option: NULL is the empty set, a value v is {v}.      *)
(* SQL predicates are three-valued ("T", "F", "U"); WHERE keeps the rows  *)
(* whose predicate is "T".                                                 *)
(* Numbers are integers counted in units of 1/FPrecision of 10^-6, the    *)
(* last digit the %f verb prints.                                          *)
(***************************************************************************)
EXTENDS Integers, Sequences, FiniteSets, TLC

\* ------------------------------------------------------------- bounds
\* Operations performed in one behaviour.
MaxCalls == 1
\* Rows of a data file drawn by the per-check specifications.
MaxRows == 3

\* Model units per 10^-6: fmt's %f prints six decimals.
FPrecision == 10

VARIABLES fs, store, clock, last, calls

vars == <<fs, store, clock, last, calls>>

\* ------------------------------------------------------------- SQL values
NULL == {}
Some(v) == {v}
Get(c) == CHOOSE v \in c : TRUE

Range(s) == {s[i] : i \in 1..Len(s)}

RECURSIVE SumSeq(_)
SumSeq(s) == IF s = <<>> THEN 0 ELSE Head(s) + SumSeq(Tail(s))

RECURSIVE SetToSeq(_)
\* The elements of a finite set of numbers in ascending order.
SetToSeq(S) ==
    IF S = {} THEN <<>>
    ELSE LET m == CHOOSE x \in S : \A y \in S : x <= y
         IN <<m>> \o SetToSeq(S \ {m})

Not3(x) == CASE x = "T" -> "F" [] x = "F" -> "T" [] OTHER -> "U"
And3(x, y) ==
    IF x = "F" \/ y = "F" THEN "F"
    ELSE IF x = "T" /\ y = "T" THEN "T" ELSE "U"
Or3(x, y) ==
    IF x = "T" \/ y = "T" THEN "T"
    ELSE IF x = "F" /\ y = "F" THEN "F" ELSE "U"
Bool3(b) == IF b THEN "T" ELSE "F"

IsNull(a) == Bool3(a = NULL)
IsNotNull(a) == Bool3(a # NULL)
Eq3(a, b) == IF a = NULL \/ b = NULL THEN "U" ELSE Bool3(Get(a) = Get(b))
Ne3(a, b) == Not3(Eq3(a, b))
Lt3(a, b) == IF a = NULL \/ b = NULL THEN "U" ELSE Bool3(Get(a) < Get(b))
Gt3(a, b) == Lt3(b, a)
Le3(a, b) == Not3(Gt3(a, b))

\* a IN ('v1', ..., 'vn'): the list holds literals, never NULL.
In3(a, list) == IF a = NULL THEN "U" ELSE Bool3(Get(a) \in Range(list))
NotIn3(a, list) == Not3(In3(a, list))

\* SELECT COUNT(*) FROM (SELECT ... FROM t WHERE P): rows whose predicate is true.
CountWhere(rows, P(_)) == Cardinality({i \in 1..Len(rows) : P(rows[i]) = "T"})

\* ------------------------------------------------------------- files
Absent == [kind |-> "absent"]
Garbage == [kind |-> "garbage"]
Table(cols, rows) == [kind |-> "table", cols |-> cols, rows |-> rows]

IsTable(f) == f.kind = "table"
HasColumn(f, c) == IsTable(f) /\ c \in Range(f.cols)
HasColumns(f, cs) == \A i \in 1..Len(cs) : HasColumn(f, cs[i])

\* The outcome of QueryRow(...).Scan(&v): the engine's error, or the scalar.
QueryError == [ok |-> FALSE, val |-> 0]
Scalar(n) == [ok |-> TRUE, val |-> n]

\* ------------------------------------------------------------- numbers
\* fmt.Sprintf("%f", x): x rounded to six decimals, i.e. to a multiple of
\* FPrecision (x >= 0 in every universe of this model).
FormatF(x) == ((2 * x + FPrecision) \div (2 * FPrecision)) * FPrecision

RECURSIVE GCD(_, _)
GCD(a, b) == IF b = 0 THEN a ELSE GCD(b, a % b)

\* The float64 an aggregate scans into, kept exact as a reduced fraction.
Rat(num, den) ==
    LET g == GCD(IF num < 0 THEN -num ELSE num, den)
    IN [num |-> num \div g, den |-> den \div g]

\* result := v >= min && v <= max
WithinBounds(v, min, max) == v.num >= min * v.den /\ v.num <= max * v.den

\* The non-NULL values of a column, in row order.
NonNull(f, c) ==
    LET idx == SetToSeq({i \in 1..Len(f.rows) : f.rows[i][c] # NULL})
    IN [k \in 1..Len(idx) |-> Get(f.rows[idx[k]][c])]

RECURSIVE Sorted(_)
\* A sequence of numbers in ascending order (duplicates kept).
Sorted(s) ==
    IF s = <<>> THEN <<>>
    ELSE LET k == CHOOSE i \in 1..Len(s) : \A j \in 1..Len(s) : s[i] <= s[j]
         IN <<s[k]>> \o Sorted([i \in 1..(Len(s) - 1) |-> IF i < k THEN s[i] ELSE s[i + 1]])

\* ------------------------------------------------------------- engine tables
\* regexp_matches(s, re): TRUE when re matches somewhere in s.
Matching(re) ==
    CASE re = "active" -> {"active", "inactive"}
      [] re = "^active$" -> {"active"}
      [] re = "^[0-9]+$" -> {"7"}
      [] OTHER -> {}
InvalidRegex == {"("}
RegexpMatches(a, re) == IF a = NULL THEN "U" ELSE Bool3(Get(a) \in Matching(re))

KnownTypes == {"INTEGER", "VARCHAR", "DATE"}
\* The strings each type's cast accepts.
Castable(type) ==
    CASE type = "INTEGER" -> {"7"}
      [] type = "DATE" -> {"2023-01-01", "2023-05-01"}
      [] OTHER -> {"active", "inactive", "7", "2023-01-01", "2023-05-01", "01/05/2023"}
\* TRY_CAST(a AS type): NULL for NULL and for a value the cast rejects.
TryCast(a, type) == IF a # NULL /\ Get(a) \in Castable(type) THEN a ELSE NULL

\* The strings strptime parses under each format.
Parses(format) ==
    CASE format = "%Y-%m-%d" -> {"2023-01-01", "2023-05-01"}
      [] format = "%d/%m/%Y" -> {"01/05/2023"}
      [] OTHER -> {}

\* ------------------------------------------------------------- other queries
\* A uniqueness count of the rows beyond the first of each duplicated value.
IsColumnUniqueQueryExcessRows(f, c) ==
    IF ~HasColumn(f, c) THEN QueryError
    ELSE LET groups == {f.rows[i][c] : i \in 1..Len(f.rows)}
         IN Scalar(Len(f.rows) - Cardinality(groups))

\* A NULL test that reports whether a NULL exists, not how many.
IsColumnNotNullQueryExists(f, c) ==
    IF ~HasColumn(f, c) THEN QueryError
    ELSE Scalar(IF \E i \in 1..Len(f.rows) : f.rows[i][c] = NULL THEN 1 ELSE 0)

\* A membership count in two-valued logic: a NULL is outside every list.
IsColumnEnumQueryCountingNulls(f, c, enumValues) ==
    IF ~HasColumn(f, c) \/ enumValues = <<>> THEN QueryError
    ELSE Scalar(Cardinality({i \in 1..Len(f.rows) :
                                \/ f.rows[i][c] = NULL
                                \/ Get(f.rows[i][c]) \notin Range(enumValues)}))

\* A uniqueness count over the values alone: the NULL rows form no group.
IsColumnUniqueQueryWithoutNullGroup(f, c) ==
    IF ~HasColumn(f, c) THEN QueryError
    ELSE LET groups == {f.rows[i][c] : i \in 1..Len(f.rows)} \ {NULL}
             size(g) == Cardinality({i \in 1..Len(f.rows) : f.rows[i][c] = g})
         IN Scalar(Cardinality({g \in groups : size(g) > 1}))

\* ------------------------------------------------------------- the checks' queries
\* SELECT COUNT(*) FROM (SELECT c FROM f GROUP BY c HAVING COUNT(*) > 1):
\* GROUP BY puts the NULLs in one group.
IsColumnUniqueQuery(f, c) ==
    IF ~HasColumn(f, c) THEN QueryError
    ELSE LET groups == {f.rows[i][c] : i \in 1..Len(f.rows)}
             size(g) == Cardinality({i \in 1..Len(f.rows) : f.rows[i][c] = g})
         IN Scalar(Cardinality({g \in groups : size(g) > 1}))

\* SELECT * FROM f WHERE c IS NULL
IsColumnNotNullQuery(f, c) ==
    IF ~HasColumn(f, c) THEN QueryError
    ELSE LET P(r) == IsNull(r[c]) IN Scalar(CountWhere(f.rows, P))

\* SELECT c FROM f WHERE c NOT IN (...) AND c IS NOT NULL
IsColumnEnumQuery(f, c, enumValues) ==
    IF ~HasColumn(f, c) \/ enumValues = <<>> THEN QueryError
    ELSE LET P(r) == And3(NotIn3(r[c], enumValues), IsNotNull(r[c]))
         IN Scalar(CountWhere(f.rows, P))

\* l.k1 = r.k1 AND ... over the join keys.
JoinCondition(l, r, joinKeys) ==
    IF \E i \in 1..Len(joinKeys) : Eq3(l[joinKeys[i]], r[joinKeys[i]]) = "F" THEN "F"
    ELSE IF \A i \in 1..Len(joinKeys) : Eq3(l[joinKeys[i]], r[joinKeys[i]]) = "T" THEN "T"
    ELSE "U"

\* SELECT l.* FROM f l LEFT JOIN g r ON <join> WHERE r.k1 IS NULL AND ...:
\* a left row pairs with each right row it joins, or once with an all-NULL right row.
AreTablesReferentialIntegralQuery(f, g, joinKeys) ==
    IF joinKeys = <<>> \/ ~HasColumns(f, joinKeys) \/ ~HasColumns(g, joinKeys)
    THEN QueryError
    ELSE LET matches(i) == {j \in 1..Len(g.rows) :
                               JoinCondition(f.rows[i], g.rows[j], joinKeys) = "T"}
             nullRow == [k \in Range(g.cols) |-> NULL]
             right(j) == IF j = 0 THEN nullRow ELSE g.rows[j]
             joined == {<<i, j>> \in (1..Len(f.rows)) \X (0..Len(g.rows)) :
                           IF matches(i) = {} THEN j = 0 ELSE j \in matches(i)}
             where(p) == \A k \in 1..Len(joinKeys) : right(p[2])[joinKeys[k]] = NULL
         IN Scalar(Cardinality({p \in joined : where(p)}))

\* SELECT c FROM f LIMIT 0
IsColumnInDataQuery(f, c) == IF HasColumn(f, c) THEN Scalar(0) ELSE QueryError

\* SELECT c FROM f WHERE c < %f OR c > %f
IsColumnBetweenQuery(f, c, min, max) ==
    IF ~HasColumn(f, c) THEN QueryError
    ELSE LET P(r) == Or3(Lt3(r[c], Some(FormatF(min))), Gt3(r[c], Some(FormatF(max))))
         IN Scalar(CountWhere(f.rows, P))

\* SELECT c FROM f WHERE NOT (regexp_matches(c, 're')) AND c IS NOT NULL
IsColumnRegexMatchQuery(f, c, regex) ==
    IF ~HasColumn(f, c) \/ regex \in InvalidRegex THEN QueryError
    ELSE LET P(r) == And3(Not3(RegexpMatches(r[c], regex)), IsNotNull(r[c]))
         IN Scalar(CountWhere(f.rows, P))

\* SELECT c FROM f WHERE TRY_CAST(c AS type) IS NULL AND c IS NOT NULL
IsColumnOfTypeQuery(f, c, targetType) ==
    IF ~HasColumn(f, c) \/ targetType \notin KnownTypes THEN QueryError
    ELSE LET P(r) == And3(IsNull(TryCast(r[c], targetType)), IsNotNull(r[c]))
         IN Scalar(CountWhere(f.rows, P))

\* SELECT c FROM f WHERE length(c) < %d OR length(c) > %d
IsColumnLengthBetweenQuery(f, c, min, max) ==
    IF ~HasColumn(f, c) THEN QueryError
    ELSE LET length(a) == IF a = NULL THEN NULL ELSE Some(Len(Get(a)))
             P(r) == Or3(Lt3(length(r[c]), Some(min)), Gt3(length(r[c]), Some(max)))
         IN Scalar(CountWhere(f.rows, P))

\* SELECT MAX(c) FROM f, scanned into a float64: NULL does not scan.
IsColumnMaxBetweenQuery(f, c) ==
    IF ~HasColumn(f, c) \/ NonNull(f, c) = <<>> THEN QueryError
    ELSE LET s == Sorted(NonNull(f, c)) IN Scalar(Rat(s[Len(s)], 1))

\* SELECT MIN(c) FROM f
IsColumnMinBetweenQuery(f, c) ==
    IF ~HasColumn(f, c) \/ NonNull(f, c) = <<>> THEN QueryError
    ELSE Scalar(Rat(Sorted(NonNull(f, c))[1], 1))

\* SELECT COALESCE(AVG(c), 0) FROM f: a mean of no values reads as 0.
IsColumnMeanBetweenQueryDefaultingToZero(f, c) ==
    IF ~HasColumn(f, c) THEN QueryError
    ELSE IF NonNull(f, c) = <<>> THEN Scalar(Rat(0, 1))
    ELSE Scalar(Rat(SumSeq(NonNull(f, c)), Len(NonNull(f, c))))

\* SELECT AVG(c) FROM f
IsColumnMeanBetweenQuery(f, c) ==
    IF ~HasColumn(f, c) \/ NonNull(f, c) = <<>> THEN QueryError
    ELSE Scalar(Rat(SumSeq(NonNull(f, c)), Len(NonNull(f, c))))

\* SELECT MEDIAN(c) FROM f: the middle value, or the mean of the two middle ones.
IsColumnMedianBetweenQuery(f, c) ==
    IF ~HasColumn(f, c) \/ NonNull(f, c) = <<>> THEN QueryError
    ELSE LET s == Sorted(NonNull(f, c))
             n == Len(s)
         IN IF n % 2 = 1 THEN Scalar(Rat(s[(n + 1) \div 2], 1))
            ELSE Scalar(Rat(s[n \div 2] + s[n \div 2 + 1], 2))

\* SELECT c FROM f WHERE strptime(CAST(c AS VARCHAR), 'fmt') IS NULL AND c IS NOT NULL:
\* strptime raises on a string it cannot parse (try_strptime is the NULL-returning one).
IsColumnDateFormatQuery(f, c, format) ==
    IF ~HasColumn(f, c) THEN QueryError
    ELSE IF \E i \in 1..Len(f.rows) :
               f.rows[i][c] # NULL /\ Get(f.rows[i][c]) \notin Parses(format)
    THEN QueryError
    ELSE Scalar(0)

\* SELECT COUNT(*) FROM f
IsTableRowCountBetweenQuery(f) == IF IsTable(f) THEN Scalar(Len(f.rows)) ELSE QueryError

\* SELECT COUNT(*) FROM f in place of the DESCRIBE count.
IsTableColumnCountBetweenQueryOverRows(f) == IF IsTable(f) THEN Scalar(Len(f.rows)) ELSE QueryError

\* SELECT COUNT(*) FROM (DESCRIBE SELECT * FROM f)
IsTableColumnCountBetweenQuery(f) == IF IsTable(f) THEN Scalar(Len(f.cols)) ELSE QueryError

\* SELECT c FROM f WHERE c IN (...)
IsColumnNotInSetQuery(f, c, blacklistedValues) ==
    IF ~HasColumn(f, c) \/ blacklistedValues = <<>> THEN QueryError
    ELSE LET P(r) == In3(r[c], blacklistedValues) IN Scalar(CountWhere(f.rows, P))

\* An ordering test by c < prev_val: an equal value passes.
IsColumnIncreasingQueryAllowingEqual(f, c) ==
    IF ~HasColumn(f, c) THEN QueryError
    ELSE LET prev(i) == IF i = 1 THEN NULL ELSE f.rows[i - 1][c]
         IN Scalar(Cardinality({i \in 1..Len(f.rows) : Lt3(f.rows[i][c], prev(i)) = "T"}))

\* SELECT COUNT(*) FROM (SELECT c, LAG(c) OVER () AS prev_val FROM f) WHERE c <= prev_val
IsColumnIncreasingQuery(f, c) ==
    IF ~HasColumn(f, c) THEN QueryError
    ELSE LET prev(i) == IF i = 1 THEN NULL ELSE f.rows[i - 1][c]
         IN Scalar(Cardinality({i \in 1..Len(f.rows) : Le3(f.rows[i][c], prev(i)) = "T"}))

\* SELECT c FROM f WHERE TRY_CAST(c AS DATE) IS NULL AND c IS NOT NULL
IsColumnDateParseableQuery(f, c) ==
    IF ~HasColumn(f, c) THEN QueryError
    ELSE LET P(r) == And3(IsNull(TryCast(r[c], "DATE")), IsNotNull(r[c]))
         IN Scalar(CountWhere(f.rows, P))

\* A comparison by a != b alone: a NULL on either side is never a violation.
AreColumnPairsEqualQueryWithoutNullArms(f, col1, col2) ==
    IF ~HasColumn(f, col1) \/ ~HasColumn(f, col2) THEN QueryError
    ELSE LET P(r) == Ne3(r[col1], r[col2]) IN Scalar(CountWhere(f.rows, P))

\* SELECT a, b FROM f WHERE a != b OR (a IS NULL AND b IS NOT NULL)
\*                                 OR (a IS NOT NULL AND b IS NULL)
AreColumnPairsEqualQuery(f, col1, col2) ==
    IF ~HasColumn(f, col1) \/ ~HasColumn(f, col2) THEN QueryError
    ELSE LET P(r) == Or3(Or3(Ne3(r[col1], r[col2]),
                             And3(IsNull(r[col1]), IsNotNull(r[col2]))),
                         And3(IsNotNull(r[col1]), IsNull(r[col2])))
         IN Scalar(CountWhere(f.rows, P))

\* A distinct count in two-valued logic: NULL is one more value outside the list.
AreDistinctValuesInSetQueryCountingNull(f, c, allowedValues) ==
    IF ~HasColumn(f, c) \/ allowedValues = <<>> THEN QueryError
    ELSE Scalar(Cardinality({f.rows[i][c] : i \in 1..Len(f.rows)}
                                \ {Some(v) : v \in Range(allowedValues)}))

\* SELECT DISTINCT c FROM f WHERE c NOT IN (...) AND c IS NOT NULL
AreDistinctValuesInSetQuery(f, c, allowedValues) ==
    IF ~HasColumn(f, c) \/ allowedValues = <<>> THEN QueryError
    ELSE LET P(r) == And3(NotIn3(r[c], allowedValues), IsNotNull(r[c]))
         IN Scalar(Cardinality({f.rows[i][c] : i \in {j \in 1..Len(f.rows) : P(f.rows[j]) = "T"}}))

\* ------------------------------------------------------------- the log store
\* CREATE TABLE IF NOT EXISTS log (id INTEGER PRIMARY KEY AUTOINCREMENT, ...):
\* `table` says whether the table exists, `seq` is the AUTOINCREMENT sequence.
EmptyStore == [table |-> TRUE, rows |-> <<>>, seq |-> 0]

\* A Log that serializes whatever map it is handed, the empty one included.
AdditionalParamsAlways(params) == Some(params)

\* json.Marshal(params) of a non-empty map; NULL when len(params) = 0.
AdditionalParams(params) == IF DOMAIN params = {} THEN NULL ELSE Some(params)

\* A Log that stores the opposite of the result it is handed.
LogEntryInverted(id, timestamp, checkType, result, params) ==
    [id |-> id,
     timestamp |-> timestamp,
     data_quality_check_type |-> checkType,
     result |-> IF result THEN 0 ELSE 1,
     additional_params |-> AdditionalParams(params)]

LogEntry(id, timestamp, checkType, result, params) ==
    [id |-> id,
     timestamp |-> timestamp,
     data_quality_check_type |-> checkType,
     result |-> IF result THEN 1 ELSE 0,
     additional_params |-> AdditionalParams(params)]

\* A Log whose id is the number of rows plus one (a key without AUTOINCREMENT's
\* sequence).
LogCountingRows(s, now, checkType, result, params, ioOk) ==
    IF s.table /\ ioOk
    THEN [ok |-> TRUE,
          store |-> [s EXCEPT !.rows = Append(@, LogEntry(Len(s.rows) + 1, now, checkType,
                                                          result, params)),
                              !.seq = @ + 1]]
    ELSE [ok |-> FALSE, store |-> s]

\* DBConnector.Log: one INSERT stamped time.Now(); it fails when the table is
\* missing or the store cannot be written (ioOk).
Log(s, now, checkType, result, params, ioOk) ==
    IF s.table /\ ioOk
    THEN [ok |-> TRUE,
          store |-> [s EXCEPT !.rows = Append(@, LogEntry(s.seq + 1, now, checkType, result, params)),
                              !.seq = @ + 1]]
    ELSE [ok |-> FALSE, store |-> s]

\* ------------------------------------------------------------- one check call
\* The operations left in this behaviour's budget.
Budget == calls > 0

NoEnvFailure == [openFailAt |-> 0, ioOk |-> TRUE]

\* Events of a call, in order: <<kind, session or path>>.
Ev(kind, x) == <<kind, x>>

\* A validation that never releases the session it opened.
validatePathExistsLeaking(dataPath, n, env) ==
    IF fs[dataPath].kind = "absent"
    THEN [err |-> "not_found", trace |-> <<Ev("os.stat", dataPath)>>, opens |-> n]
    ELSE IF env.openFailAt = n + 1
    THEN [err |-> "open", trace |-> <<Ev("os.stat", dataPath)>>, opens |-> n]
    ELSE [err |-> IF IsTable(fs[dataPath]) THEN "nil" ELSE "unreadable",
          trace |-> <<Ev("os.stat", dataPath), Ev("duckdb.open", n + 1),
                      Ev("duckdb.exec", n + 1)>>,
          opens |-> n + 1]

\* validatePathExists as the (n+1)-th engine session of the call.
validatePathExists(dataPath, n, env) ==
    IF fs[dataPath].kind = "absent"
    THEN [err |-> "not_found", trace |-> <<Ev("os.stat", dataPath)>>, opens |-> n]
    ELSE IF env.openFailAt = n + 1
    THEN [err |-> "open", trace |-> <<Ev("os.stat", dataPath)>>, opens |-> n]
    ELSE [err |-> IF IsTable(fs[dataPath]) THEN "nil" ELSE "unreadable",
          trace |-> <<Ev("os.stat", dataPath), Ev("duckdb.open", n + 1),
                      Ev("duckdb.exec", n + 1), Ev("duckdb.close", n + 1)>>,
          opens |-> n + 1]

RECURSIVE validatePathsAll(_, _, _)
\* Validations that go on to the next path after an error and return the first error.
validatePathsAll(paths, n, env) ==
    IF paths = <<>> THEN [err |-> "nil", trace |-> <<>>, opens |-> n]
    ELSE LET v == validatePathExists(Head(paths), n, env)
             w == validatePathsAll(Tail(paths), v.opens, env)
         IN [err |-> IF v.err # "nil" THEN v.err ELSE w.err,
             trace |-> v.trace \o w.trace, opens |-> w.opens]

RECURSIVE validatePaths(_, _, _)
\* The validations a check starts with, one per path, stopping at the first error.
validatePaths(paths, n, env) ==
    IF paths = <<>> THEN [err |-> "nil", trace |-> <<>>, opens |-> n]
    ELSE LET v == validatePathExists(Head(paths), n, env)
         IN IF v.err # "nil" THEN v
            ELSE LET w == validatePaths(Tail(paths), v.opens, env)
                 IN [err |-> w.err, trace |-> v.trace \o w.trace, opens |-> w.opens]

\* A Scan on an engine session shared between calls: the first completed check
\* closed it, and every later query fails.
ScanOnSharedSession(q) == IF store.rows = <<>> THEN q ELSE QueryError

\* A Scan whose error is dropped: the count keeps its zero value.
ScanIgnoringError(q) == IF q.ok THEN q ELSE Scalar(0)

\* A path validation whose error is dropped.
ValidationErrorIgnored(v) == "nil"

\* A log failure that returns false in place of the computed result.
ReturnFalseOnLogError(result) == FALSE

\* err = duckInfo.QueryRow(q).Scan(&v); if err != nil { return false, err }
Scan(q) == q

\* if err := c.validatePathExists(dataPath); err != nil { return false, err }
ValidationError(v) == v.err

\* if err := Log(...); err != nil { return result, fmt.Errorf("failed to log result") }
ReturnOnLogError(result) == result

\* What a call leaves behind for the caller: the returned (bool, error), what it
\* was called with and under which environment, the scalar it scanned, its
\* events, the log it started from and what it printed.
Returned(op, paths, cols, args, env, result, err, val, trace) ==
    [op |-> op, paths |-> paths, cols |-> cols, args |-> args, env |-> env,
     result |-> result, err |-> err, val |-> val, trace |-> trace,
     before |-> store.rows, out |-> <<>>]

\* A check body that releases the query's session before it logs.
CheckOnClosingFirst(s, op, paths, cols, args, q, seen, passed, params, env) ==
    LET v == validatePaths(paths, 0, env)
        k == v.opens + 1
        sess == <<Ev("duckdb.open", k), Ev("duckdb.query", k)>>
                    \o (IF q.ok THEN <<>> ELSE <<Ev("duckdb.error", k)>>)
        close == <<Ev("duckdb.close", k)>>
        sqlite == <<Ev("sqlite.open", 1), Ev("sqlite.exec", 1), Ev("sqlite.close", 1)>>
        l == Log(s, clock, op, passed, params, env.ioOk)
    IN IF ValidationError(v) # "nil"
       THEN [store |-> s,
             last |-> Returned(op, paths, cols, args, env, FALSE, v.err, NULL, v.trace)]
       ELSE IF env.openFailAt = k
       THEN [store |-> s,
             last |-> Returned(op, paths, cols, args, env, FALSE, "open", NULL, v.trace)]
       ELSE IF ~seen.ok
       THEN [store |-> s,
             last |-> Returned(op, paths, cols, args, env, FALSE, "query", NULL,
                               v.trace \o sess \o close)]
       ELSE [store |-> l.store,
             last |-> Returned(op, paths, cols, args, env,
                               IF l.ok THEN passed ELSE ReturnOnLogError(passed),
                               IF l.ok THEN "nil" ELSE "log",
                               Some(seen.val), v.trace \o sess \o close \o sqlite)]

\* The body every check shares, run against the log store `s` of its connector:
\* validate the paths, open a session, run the query, derive the boolean, log
\* it, and only then release the session (defer duckInfo.Close()). `q` is what
\* the engine answers and `seen` what the check makes of it; `passed` and
\* `params` are read only when `seen` is a scalar. The result is the store the
\* call leaves and what it returns.
CheckOn(s, op, paths, cols, args, q, seen, passed, params, env) ==
    LET v == validatePaths(paths, 0, env)
        k == v.opens + 1
        sess == <<Ev("duckdb.open", k), Ev("duckdb.query", k)>>
                    \o (IF q.ok THEN <<>> ELSE <<Ev("duckdb.error", k)>>)
        close == <<Ev("duckdb.close", k)>>
        sqlite == <<Ev("sqlite.open", 1), Ev("sqlite.exec", 1), Ev("sqlite.close", 1)>>
        l == Log(s, clock, op, passed, params, env.ioOk)
    IN IF ValidationError(v) # "nil"
       THEN [store |-> s,
             last |-> Returned(op, paths, cols, args, env, FALSE, v.err, NULL, v.trace)]
       ELSE IF env.openFailAt = k
       THEN [store |-> s,
             last |-> Returned(op, paths, cols, args, env, FALSE, "open", NULL, v.trace)]
       ELSE IF ~seen.ok
       THEN [store |-> s,
             last |-> Returned(op, paths, cols, args, env, FALSE, "query", NULL,
                               v.trace \o sess \o close)]
       ELSE [store |-> l.store,
             last |-> Returned(op, paths, cols, args, env,
                               IF l.ok THEN passed ELSE ReturnOnLogError(passed),
                               IF l.ok THEN "nil" ELSE "log",
                               Some(seen.val), v.trace \o sess \o sqlite \o close)]

\* A check called on the checker of this model, whose connector holds `store`.
RunCheck(op, paths, cols, args, q, seen, passed, params, env) ==
    LET c == CheckOn(store, op, paths, cols, args, q, seen, passed, params, env)
    IN /\ Budget
       /\ calls' = calls - 1
       /\ UNCHANGED <<fs, clock>>
       /\ store' = c.store
       /\ last' = c.last

\* ------------------------------------------------------------- the 21 checks
NoArgs == <<>>
CountIsZero(q) == q.val = 0

IsColumnUnique(dataPath, uniqueColumn, env) ==
    LET q == IsColumnUniqueQuery(fs[dataPath], uniqueColumn)
    IN RunCheck("is_column_unique", <<dataPath>>, <<uniqueColumn>>, NoArgs, q, Scan(q), CountIsZero(q),
                [column |-> uniqueColumn, data_path |-> dataPath, error_count |-> q.val], env)

IsColumnNotNull(dataPath, notNullColumn, env) ==
    LET q == IsColumnNotNullQuery(fs[dataPath], notNullColumn)
    IN RunCheck("is_column_not_null", <<dataPath>>, <<notNullColumn>>, NoArgs, q, Scan(q), CountIsZero(q),
                [column |-> notNullColumn, data_path |-> dataPath, error_count |-> q.val], env)

IsColumnEnum(dataPath, enumColumn, enumValues, env) ==
    LET q == IsColumnEnumQuery(fs[dataPath], enumColumn, enumValues)
    IN RunCheck("is_column_enum", <<dataPath>>, <<enumColumn>>, [enumValues |-> enumValues],
                q, Scan(q), CountIsZero(q),
                [column |-> enumColumn, enum_values |-> enumValues, data_path |-> dataPath,
                 error_count |-> q.val], env)

AreTablesReferentialIntegral(dataPath, referencePath, joinKeys, env) ==
    LET q == AreTablesReferentialIntegralQuery(fs[dataPath], fs[referencePath], joinKeys)
    IN RunCheck("are_tables_referential_integral", <<dataPath, referencePath>>, joinKeys,
                NoArgs, q, Scan(q), CountIsZero(q),
                [join_keys |-> joinKeys, data_path |-> dataPath,
                 reference_path |-> referencePath, error_count |-> q.val], env)

\* An Exec whose error is returned to the caller like every other check's.
IsColumnInDataExecReturningError(q) == q

\* _, err = duckInfo.Exec(query); result := err == nil: the error is the answer,
\* it is not returned.
IsColumnInDataExec(q) == Scalar(0)

IsColumnInData(dataPath, columnName, env) ==
    LET q == IsColumnInDataQuery(fs[dataPath], columnName)
    IN RunCheck("is_column_in_data", <<dataPath>>, <<columnName>>, NoArgs,
                q, IsColumnInDataExec(q), q.ok,
                [column |-> columnName, data_path |-> dataPath], env)

IsColumnBetween(dataPath, columnName, min, max, env) ==
    LET q == IsColumnBetweenQuery(fs[dataPath], columnName, min, max)
    IN RunCheck("is_column_between", <<dataPath>>, <<columnName>>, [min |-> min, max |-> max],
                q, Scan(q), CountIsZero(q),
                [column |-> columnName, min |-> min, max |-> max, data_path |-> dataPath,
                 error_count |-> q.val], env)

IsColumnRegexMatch(dataPath, columnName, regex, env) ==
    LET q == IsColumnRegexMatchQuery(fs[dataPath], columnName, regex)
    IN RunCheck("is_column_regex_match", <<dataPath>>, <<columnName>>, [regex |-> regex],
                q, Scan(q), CountIsZero(q),
                [column |-> columnName, regex |-> regex, data_path |-> dataPath,
                 error_count |-> q.val], env)

IsColumnOfType(dataPath, columnName, targetType, env) ==
    LET q == IsColumnOfTypeQuery(fs[dataPath], columnName, targetType)
    IN RunCheck("is_column_of_type", <<dataPath>>, <<columnName>>, [targetType |-> targetType],
                q, Scan(q), CountIsZero(q),
                [column |-> columnName, target_type |-> targetType, data_path |-> dataPath,
                 error_count |-> q.val], env)

IsColumnLengthBetween(dataPath, columnName, min, max, env) ==
    LET q == IsColumnLengthBetweenQuery(fs[dataPath], columnName, min, max)
    IN RunCheck("is_column_length_between", <<dataPath>>, <<columnName>>,
                [min |-> min, max |-> max], q, Scan(q), CountIsZero(q),
                [column |-> columnName, min |-> min, max |-> max, data_path |-> dataPath,
                 error_count |-> q.val], env)

IsColumnMaxBetween(dataPath, columnName, min, max, env) ==
    LET q == IsColumnMaxBetweenQuery(fs[dataPath], columnName)
    IN RunCheck("is_column_max_between", <<dataPath>>, <<columnName>>,
                [min |-> min, max |-> max], q, Scan(q), WithinBounds(q.val, min, max),
                [column |-> columnName, max_value |-> q.val, min_allowed |-> min,
                 max_allowed |-> max, data_path |-> dataPath], env)

IsColumnMinBetween(dataPath, columnName, min, max, env) ==
    LET q == IsColumnMinBetweenQuery(fs[dataPath], columnName)
    IN RunCheck("is_column_min_between", <<dataPath>>, <<columnName>>,
                [min |-> min, max |-> max], q, Scan(q), WithinBounds(q.val, min, max),
                [column |-> columnName, min_value |-> q.val, min_allowed |-> min,
                 max_allowed |-> max, data_path |-> dataPath], env)

IsColumnMeanBetween(dataPath, columnName, min, max, env) ==
    LET q == IsColumnMeanBetweenQuery(fs[dataPath], columnName)
    IN RunCheck("is_column_mean_between", <<dataPath>>, <<columnName>>,
                [min |-> min, max |-> max], q, Scan(q), WithinBounds(q.val, min, max),
                [column |-> columnName, avg_value |-> q.val, min_allowed |-> min,
                 max_allowed |-> max, data_path |-> dataPath], env)

IsColumnMedianBetween(dataPath, columnName, min, max, env) ==
    LET q == IsColumnMedianBetweenQuery(fs[dataPath], columnName)
    IN RunCheck("is_column_median_between", <<dataPath>>, <<columnName>>,
                [min |-> min, max |-> max], q, Scan(q), WithinBounds(q.val, min, max),
                [column |-> columnName, median_value |-> q.val, min_allowed |-> min,
                 max_allowed |-> max, data_path |-> dataPath], env)

IsColumnDateFormat(dataPath, columnName, format, env) ==
    LET q == IsColumnDateFormatQuery(fs[dataPath], columnName, format)
    IN RunCheck("is_column_date_format", <<dataPath>>, <<columnName>>, [format |-> format],
                q, Scan(q), CountIsZero(q),
                [column |-> columnName, format |-> format, data_path |-> dataPath,
                 error_count |-> q.val], env)

IsTableRowCountBetween(dataPath, min, max, env) ==
    LET q == IsTableRowCountBetweenQuery(fs[dataPath])
    IN RunCheck("is_table_row_count_between", <<dataPath>>, <<>>, [min |-> min, max |-> max],
                q, Scan(q), q.val >= min /\ q.val <= max,
                [row_count |-> q.val, min_allowed |-> min, max_allowed |-> max,
                 data_path |-> dataPath], env)

IsTableColumnCountBetween(dataPath, min, max, env) ==
    LET q == IsTableColumnCountBetweenQuery(fs[dataPath])
    IN RunCheck("is_table_column_count_between", <<dataPath>>, <<>>,
                [min |-> min, max |-> max], q, Scan(q), q.val >= min /\ q.val <= max,
                [col_count |-> q.val, min_allowed |-> min, max_allowed |-> max,
                 data_path |-> dataPath], env)

IsColumnNotInSet(dataPath, columnName, blacklistedValues, env) ==
    LET q == IsColumnNotInSetQuery(fs[dataPath], columnName, blacklistedValues)
    IN RunCheck("is_column_not_in_set", <<dataPath>>, <<columnName>>,
                [blacklistedValues |-> blacklistedValues], q, Scan(q), CountIsZero(q),
                [column |-> columnName, blacklist |-> blacklistedValues,
                 data_path |-> dataPath, error_count |-> q.val], env)

IsColumnIncreasing(dataPath, columnName, env) ==
    LET q == IsColumnIncreasingQuery(fs[dataPath], columnName)
    IN RunCheck("is_column_increasing", <<dataPath>>, <<columnName>>, NoArgs, q, Scan(q), CountIsZero(q),
                [column |-> columnName, data_path |-> dataPath, error_count |-> q.val], env)

IsColumnDateParseable(dataPath, columnName, env) ==
    LET q == IsColumnDateParseableQuery(fs[dataPath], columnName)
    IN RunCheck("is_column_date_parseable", <<dataPath>>, <<columnName>>, NoArgs, q,
                Scan(q), CountIsZero(q),
                [column |-> columnName, data_path |-> dataPath, error_count |-> q.val], env)

AreColumnPairsEqual(dataPath, col1, col2, env) ==
    LET q == AreColumnPairsEqualQuery(fs[dataPath], col1, col2)
    IN RunCheck("are_column_pairs_equal", <<dataPath>>, <<col1, col2>>, NoArgs, q,
                Scan(q), CountIsZero(q),
                [column1 |-> col1, column2 |-> col2, data_path |-> dataPath,
                 error_count |-> q.val], env)

AreDistinctValuesInSet(dataPath, columnName, allowedValues, env) ==
    LET q == AreDistinctValuesInSetQuery(fs[dataPath], columnName, allowedValues)
    IN RunCheck("are_distinct_values_in_set", <<dataPath>>, <<columnName>>,
                [allowedValues |-> allowedValues], q, Scan(q), CountIsZero(q),
                [column |-> columnName, allowed |-> allowedValues, data_path |-> dataPath,
                 error_count |-> q.val], env)

\* ------------------------------------------------------------- the logger's operations
\* A construction that returns no connector when the table cannot be created.
NewDBConnectorOrNil(createOk) ==
    /\ Budget
    /\ calls' = calls - 1
    /\ store' = [store EXCEPT !.table = @ \/ createOk]
    /\ last' = Returned("new_db_connector", <<>>, <<>>, NoArgs, NoEnvFailure, createOk,
                        IF createOk THEN "nil" ELSE "create", NULL,
                        <<Ev("sqlite.open", 1), Ev("sqlite.exec", 1), Ev("sqlite.close", 1)>>)
    /\ UNCHANGED <<fs, clock>>

\* A construction that drops the table and creates it again.
NewDBConnectorRecreating(createOk) ==
    /\ Budget
    /\ calls' = calls - 1
    /\ store' = IF createOk THEN [store EXCEPT !.table = TRUE, !.rows = <<>>] ELSE store
    /\ last' = Returned("new_db_connector", <<>>, <<>>, NoArgs, NoEnvFailure, TRUE,
                        IF createOk THEN "nil" ELSE "create", NULL,
                        <<Ev("sqlite.open", 1), Ev("sqlite.exec", 1), Ev("sqlite.close", 1)>>)
    /\ UNCHANGED <<fs, clock>>

\* CREATE TABLE IF NOT EXISTS log (...): the table is there afterwards unless
\* the statement failed and it was not there before.
createLogTable(s, createOk) == [s EXCEPT !.table = @ \/ createOk]

\* NewDBConnector: createLogTable's failure is only printed, the connector is returned.
NewDBConnector(createOk) ==
    /\ Budget
    /\ calls' = calls - 1
    /\ store' = createLogTable(store, createOk)
    /\ last' = Returned("new_db_connector", <<>>, <<>>, NoArgs, NoEnvFailure, TRUE,
                        IF createOk THEN "nil" ELSE "create", NULL,
                        <<Ev("sqlite.open", 1), Ev("sqlite.exec", 1), Ev("sqlite.close", 1)>>)
    /\ UNCHANGED <<fs, clock>>

\* DBConnector.Log called by a user of the package: checker.Log's caller is a
\* check, this one is anyone holding the connector.
DBConnectorLog(checkType, result, params, ioOk) ==
    LET l == Log(store, clock, checkType, result, params, ioOk)
    IN /\ Budget
       /\ calls' = calls - 1
       /\ store' = l.store
       /\ last' = Returned("log", <<>>, <<>>,
                           [checkType |-> checkType, result |-> result, params |-> params],
                           [openFailAt |-> 0, ioOk |-> ioOk], l.ok,
                           IF l.ok THEN "nil" ELSE "log", NULL,
                           <<Ev("sqlite.open", 1), Ev("sqlite.exec", 1), Ev("sqlite.close", 1)>>)
       /\ UNCHANGED <<fs, clock>>

RECURSIVE SortById(_)
\* ORDER BY id
SortById(rows) ==
    IF rows = <<>> THEN <<>>
    ELSE LET k == CHOOSE i \in 1..Len(rows) : \A j \in 1..Len(rows) : rows[i].id <= rows[j].id
         IN <<rows[k]>> \o SortById([i \in 1..(Len(rows) - 1) |->
                                         IF i < k THEN rows[i] ELSE rows[i + 1]])

\* The LogEntry PrintAllLogs scans a row into: Result is result != 0.
Scanned(row) ==
    [ID |-> row.id, Timestamp |-> row.timestamp,
     DataQualityCheckType |-> row.data_quality_check_type,
     Result |-> row.result # 0,
     AdditionalParams |-> row.additional_params]

PrintAllLogs ==
    /\ Budget
    /\ calls' = calls - 1
    /\ last' = [Returned("print_all_logs", <<>>, <<>>, NoArgs, NoEnvFailure,
                         store.table,
                         IF store.table THEN "nil" ELSE "query", NULL,
                         <<Ev("sqlite.open", 1), Ev("sqlite.query", 1), Ev("sqlite.close", 1)>>)
                EXCEPT !.out = IF store.table
                                THEN [i \in 1..Len(store.rows) |-> Scanned(SortById(store.rows)[i])]
                                ELSE <<>>]
    /\ UNCHANGED <<fs, store, clock>>

\* A clear that deletes the failed checks' records only.
ClearLogsOfFailures(ioOk) ==
    /\ Budget
    /\ calls' = calls - 1
    /\ store' = IF store.table /\ ioOk
                THEN [store EXCEPT !.rows = SelectSeq(@, LAMBDA r : r.result = 1)]
                ELSE store
    /\ last' = Returned("clear_logs", <<>>, <<>>, NoArgs, [openFailAt |-> 0, ioOk |-> ioOk],
                        store.table /\ ioOk,
                        IF store.table /\ ioOk THEN "nil" ELSE "clear", NULL,
                        <<Ev("sqlite.open", 1), Ev("sqlite.exec", 1), Ev("sqlite.close", 1)>>)
    /\ UNCHANGED <<fs, clock>>

\* A clear that also forgets the highest id: numbering restarts at 1, as it
\* would for a key without AUTOINCREMENT.
ClearLogsRestartingIds(ioOk) ==
    /\ Budget
    /\ calls' = calls - 1
    /\ store' = IF store.table /\ ioOk THEN [store EXCEPT !.rows = <<>>, !.seq = 0] ELSE store
    /\ last' = Returned("clear_logs", <<>>, <<>>, NoArgs, [openFailAt |-> 0, ioOk |-> ioOk],
                        store.table /\ ioOk,
                        IF store.table /\ ioOk THEN "nil" ELSE "clear", NULL,
                        <<Ev("sqlite.open", 1), Ev("sqlite.exec", 1), Ev("sqlite.close", 1)>>)
    /\ UNCHANGED <<fs, clock>>

\* ClearLogs: DELETE FROM log; the AUTOINCREMENT sequence is kept.
ClearLogs(ioOk) ==
    /\ Budget
    /\ calls' = calls - 1
    /\ store' = IF store.table /\ ioOk THEN [store EXCEPT !.rows = <<>>] ELSE store
    /\ last' = Returned("clear_logs", <<>>, <<>>, NoArgs, [openFailAt |-> 0, ioOk |-> ioOk],
                        store.table /\ ioOk,
                        IF store.table /\ ioOk THEN "nil" ELSE "clear", NULL,
                        <<Ev("sqlite.open", 1), Ev("sqlite.exec", 1), Ev("sqlite.close", 1)>>)
    /\ UNCHANGED <<fs, clock>>

\* A second passes: time.Now() formats to the next RFC3339 value.
Tick ==
    /\ Budget
    /\ calls' = calls - 1
    /\ clock' = clock + 1
    /\ UNCHANGED <<fs, store, last>>

\* ------------------------------------------------------------- the system
\* data.csv and ref.csv are readable; missing.csv does not exist; garbage.bin
\* exists and the engine cannot parse it.
DataCsv ==
    Table(<<"id", "grp", "status", "day">>,
          << [id |-> Some(10), grp |-> Some(10), status |-> Some("active"), day |-> Some("2023-01-01")],
             [id |-> Some(20), grp |-> NULL, status |-> Some("inactive"), day |-> Some("2023-05-01")],
             [id |-> Some(30), grp |-> Some(10), status |-> NULL, day |-> NULL] >>)
RefCsv ==
    Table(<<"id", "grp">>,
          << [id |-> Some(10), grp |-> Some(10)],
             [id |-> Some(20), grp |-> Some(10)],
             [id |-> Some(30), grp |-> Some(20)] >>)

Paths == {"data.csv", "ref.csv", "missing.csv", "garbage.bin"}
Files(data, ref) ==
    [p \in Paths |-> CASE p = "data.csv" -> data
                       [] p = "ref.csv" -> ref
                       [] p = "missing.csv" -> Absent
                       [] OTHER -> Garbage]

\* A store an earlier run left one record in.
UsedStore ==
    [table |-> TRUE,
     rows |-> <<LogEntry(2, 0, "is_column_in_data", TRUE,
                         [column |-> "id", data_path |-> "data.csv"])>>,
     seq |-> 2]
\* A store whose table could not be created.
BrokenStore == [table |-> FALSE, rows |-> <<>>, seq |-> 0]

NoCall == [op |-> "none", paths |-> <<>>, cols |-> <<>>, args |-> NoArgs,
           env |-> NoEnvFailure, result |-> FALSE, err |-> "nil", val |-> NULL, trace |-> <<>>,
           before |-> <<>>, out |-> <<>>]

Init ==
    /\ fs = Files(DataCsv, RefCsv)
    /\ store \in {EmptyStore, UsedStore, BrokenStore}
    /\ clock = 0
    /\ last = NoCall
    /\ calls = MaxCalls

\* What the callers of this model pass.
DataPaths == {"data.csv", "missing.csv", "garbage.bin"}
RefPaths == {"ref.csv", "missing.csv", "garbage.bin"}
NumCols == {"id", "grp", "nope"}
StrCols == {"status", "day", "nope"}
\* The log write fails; the first, second, third sql.Open("duckdb") fails.
IoFailure == [openFailAt |-> 0, ioOk |-> FALSE]
OpenFailure(n) == [openFailAt |-> n, ioOk |-> TRUE]
Envs == {NoEnvFailure, IoFailure, OpenFailure(1), OpenFailure(2)}
RefEnvs == Envs \cup {OpenFailure(3)}
\* A log or second-session failure is of interest on a path that validates.
EnvsOf(p) == IF p = "data.csv" THEN Envs ELSE {NoEnvFailure, OpenFailure(1)}
NumBounds == {<<10, 30>>, <<16, 30>>}
AggBounds == {<<10, 20>>}
LenBounds == {<<6, 8>>}
CountBounds == {<<1, 3>>, <<4, 5>>}
StrLists == {<<"active", "inactive">>, <<"active">>}
KeyLists == {<<"id">>, <<"grp">>, <<"id", "nope">>}
Regexes == {"^active$", "("}
Types == {"DATE", "NOPE"}
Formats == {"%Y-%m-%d"}
\* A nil or empty map (len(params) = 0) and a map with an entry.
NoParams == <<>>
ParamMaps == {NoParams, [column |-> "id"]}
\* A column the file has and one it lacks.
TwiceCols == {"id", "nope"}

Next ==
    \/ Budget /\ \E p \in DataPaths, c \in NumCols : \E e \in EnvsOf(p) : IsColumnUnique(p, c, e)
    \/ Budget /\ \E p \in DataPaths, c \in NumCols : \E e \in EnvsOf(p) : IsColumnNotNull(p, c, e)
    \/ Budget /\ \E p \in DataPaths, c \in StrCols, l \in StrLists : \E e \in EnvsOf(p) :
           IsColumnEnum(p, c, l, e)
    \/ Budget /\ \E p \in DataPaths, r \in RefPaths, k \in KeyLists, e \in RefEnvs :
           AreTablesReferentialIntegral(p, r, k, e)
    \/ Budget /\ \E p \in DataPaths, c \in NumCols : \E e \in EnvsOf(p) : IsColumnInData(p, c, e)
    \/ Budget /\ \E p \in DataPaths, c \in NumCols, b \in NumBounds : \E e \in EnvsOf(p) :
           IsColumnBetween(p, c, b[1], b[2], e)
    \/ Budget /\ \E p \in DataPaths, c \in StrCols, r \in Regexes : \E e \in EnvsOf(p) :
           IsColumnRegexMatch(p, c, r, e)
    \/ Budget /\ \E p \in DataPaths, c \in StrCols, t \in Types : \E e \in EnvsOf(p) :
           IsColumnOfType(p, c, t, e)
    \/ Budget /\ \E p \in DataPaths, c \in StrCols, b \in LenBounds : \E e \in EnvsOf(p) :
           IsColumnLengthBetween(p, c, b[1], b[2], e)
    \/ Budget /\ \E p \in DataPaths, c \in NumCols, b \in AggBounds : \E e \in EnvsOf(p) :
           IsColumnMaxBetween(p, c, b[1], b[2], e)
    \/ Budget /\ \E p \in DataPaths, c \in NumCols, b \in AggBounds : \E e \in EnvsOf(p) :
           IsColumnMinBetween(p, c, b[1], b[2], e)
    \/ Budget /\ \E p \in DataPaths, c \in NumCols, b \in AggBounds : \E e \in EnvsOf(p) :
           IsColumnMeanBetween(p, c, b[1], b[2], e)
    \/ Budget /\ \E p \in DataPaths, c \in NumCols, b \in AggBounds : \E e \in EnvsOf(p) :
           IsColumnMedianBetween(p, c, b[1], b[2], e)
    \/ Budget /\ \E p \in DataPaths, c \in StrCols, f \in Formats : \E e \in EnvsOf(p) :
           IsColumnDateFormat(p, c, f, e)
    \/ Budget /\ \E p \in DataPaths, b \in CountBounds : \E e \in EnvsOf(p) :
           IsTableRowCountBetween(p, b[1], b[2], e)
    \/ Budget /\ \E p \in DataPaths, b \in CountBounds : \E e \in EnvsOf(p) :
           IsTableColumnCountBetween(p, b[1], b[2], e)
    \/ Budget /\ \E p \in DataPaths, c \in StrCols, l \in StrLists : \E e \in EnvsOf(p) :
           IsColumnNotInSet(p, c, l, e)
    \/ Budget /\ \E p \in DataPaths, c \in NumCols : \E e \in EnvsOf(p) : IsColumnIncreasing(p, c, e)
    \/ Budget /\ \E p \in DataPaths, c \in StrCols : \E e \in EnvsOf(p) : IsColumnDateParseable(p, c, e)
    \/ Budget /\ \E p \in DataPaths, c \in NumCols : \E e \in EnvsOf(p) :
           AreColumnPairsEqual(p, c, "grp", e)
    \/ Budget /\ \E p \in DataPaths, c \in StrCols, l \in StrLists : \E e \in EnvsOf(p) :
           AreDistinctValuesInSet(p, c, l, e)
    \/ \E createOk \in BOOLEAN : NewDBConnector(createOk)
    \/ \E result \in BOOLEAN, params \in ParamMaps, ioOk \in BOOLEAN :
           DBConnectorLog("check1", result, params, ioOk)
    \/ PrintAllLogs
    \/ \E ioOk \in BOOLEAN : ClearLogs(ioOk)
    \/ Tick

Spec == Init /\ [][Next]_vars

\* ------------------------------------------------------------- one check over every small file
\* The files of at most MaxRows rows with the one column col over vals, a cell
\* being NULL or one of vals.
Cells(vals) == {NULL} \cup {Some(v) : v \in vals}
TablesOver(col, vals) ==
    {Table(<<col>>, rows) :
        rows \in UNION {[1..k -> [{col} -> Cells(vals)]] : k \in 0..MaxRows}}

LogEnvs == {NoEnvFailure, IoFailure}

\* column-unique, column-not-null and column-enum over a status column.
StatusValues == {"active", "pending"}
EnumLists == {<<"active">>, <<"active", "inactive">>, <<>>}
ColumnInit ==
    /\ fs \in {Files(t, RefCsv) : t \in TablesOver("status", StatusValues)}
    /\ store = EmptyStore
    /\ clock = 0
    /\ last = NoCall
    /\ calls = MaxCalls
ColumnNext ==
    \/ Budget /\ \E e \in LogEnvs : IsColumnUnique("data.csv", "status", e)
    \/ Budget /\ \E e \in LogEnvs : IsColumnNotNull("data.csv", "status", e)
    \/ Budget /\ \E l \in EnumLists, e \in LogEnvs : IsColumnEnum("data.csv", "status", l, e)
SpecColumn == ColumnInit /\ [][ColumnNext]_vars

\* column-between over an amount column whose values and bounds have a
\* seventh decimal.
AmountValues == {2, 6, 20}
AmountBounds == {<<10, 20>>, <<6, 20>>, <<4, 16>>}
BetweenInit ==
    /\ fs \in {Files(t, RefCsv) : t \in TablesOver("amount", AmountValues)}
    /\ store = EmptyStore
    /\ clock = 0
    /\ last = NoCall
    /\ calls = MaxCalls
BetweenNext ==
    Budget /\ \E b \in AmountBounds, e \in LogEnvs :
        IsColumnBetween("data.csv", "amount", b[1], b[2], e)
SpecBetween == BetweenInit /\ [][BetweenNext]_vars

\* the four column aggregates over an amount column, and the two table-shape
\* checks over that file and the reference file.
AggregateInit ==
    /\ fs \in {Files(t, RefCsv) : t \in TablesOver("amount", AmountValues)}
    /\ store = EmptyStore
    /\ clock = 0
    /\ last = NoCall
    /\ calls = MaxCalls
AggregateNext ==
    \/ \E b \in AmountBounds, e \in LogEnvs : IsColumnMaxBetween("data.csv", "amount", b[1], b[2], e)
    \/ \E b \in AmountBounds, e \in LogEnvs : IsColumnMinBetween("data.csv", "amount", b[1], b[2], e)
    \/ \E b \in AmountBounds, e \in LogEnvs : IsColumnMeanBetween("data.csv", "amount", b[1], b[2], e)
    \/ \E b \in AmountBounds, e \in LogEnvs : IsColumnMedianBetween("data.csv", "amount", b[1], b[2], e)
    \/ \E p \in {"data.csv", "ref.csv"}, b \in CountBounds, e \in LogEnvs :
           IsTableRowCountBetween(p, b[1], b[2], e)
    \/ \E p \in {"data.csv", "ref.csv"}, b \in CountBounds, e \in LogEnvs :
           IsTableColumnCountBetween(p, b[1], b[2], e)
SpecAggregate == AggregateInit /\ [][AggregateNext]_vars

\* column-pairs-equal, column-increasing, column-enum and distinct-values-in-set
\* over a file of two columns a and b, two calls in a row.
PairTables ==
    {Table(<<"a", "b">>, rows) :
        rows \in UNION {[1..k -> [a : Cells({1, 2}), b : Cells({1})]] : k \in 0..MaxRows}}
AllowedLists == {<<1>>, <<1, 2>>}
PairsInit ==
    /\ fs \in {Files(t, RefCsv) : t \in PairTables}
    /\ store = EmptyStore
    /\ clock = 0
    /\ last = NoCall
    /\ calls = MaxCalls + 1
PairsNext ==
    \/ AreColumnPairsEqual("data.csv", "a", "b", NoEnvFailure)
    \/ IsColumnIncreasing("data.csv", "a", NoEnvFailure)
    \/ \E l \in AllowedLists : IsColumnEnum("data.csv", "a", l, NoEnvFailure)
    \/ \E l \in AllowedLists : AreDistinctValuesInSet("data.csv", "a", l, NoEnvFailure)
SpecPairs == PairsInit /\ [][PairsNext]_vars

\* ------------------------------------------------------------- the dqc command line
\* cmd.Flags().GetString(name): the value given, "" when the flag was not given.
GetString(flags, name) == IF flags[name] = NULL THEN "" ELSE Get(flags[name])
\* cmd.Flags().GetFloat64(name): the value given, 0 when the flag was not given.
GetFloat64(flags, name) == IF flags[name] = NULL THEN 0 ELSE Get(flags[name])

\* What a command's Run leaves: the log store, the lines printed (each the
\* pterm style and what it reports), what it constructed, and what the check it invoked returned (NoCall when none).
Ran(s, printed, constructed, call) ==
    [store |-> s, printed |-> printed, constructed |-> constructed, call |-> call]

\* pterm.Error.Println("Missing required flags: ..."); return
MissingRequiredFlags(s) == Ran(s, << <<"error", "missing_flags">> >>, {}, NoCall)

\* A tail that prints the error and goes on to the outcome when the check
\* computed one.
ReportOutcomeAfterError(c) ==
    Ran(c.store,
        (IF c.last.err # "nil" THEN << <<"error", "check_error">> >> ELSE <<>>)
            \o (IF c.last.val = NULL THEN <<>>
                ELSE IF c.last.result THEN << <<"success", "outcome">> >>
                ELSE << <<"error", "outcome">> >>),
        {"logger", "checker"}, c.last)

\* The tail of every check command: the error, or the outcome in its style.
Report(c) ==
    Ran(c.store,
        IF c.last.err # "nil" THEN << <<"error", "check_error">> >>
        ELSE IF c.last.result THEN << <<"success", "outcome">> >>
        ELSE << <<"error", "outcome">> >>,
        {"logger", "checker"}, c.last)

\* getChecker: db.NewDBConnector(dbPath) creates the log table.
getChecker(s, createOk) == createLogTable(s, createOk)

\* A check-unique that constructs its checker before it looks at the flags.
checkUniqueCmdConstructingFirst(s, flags, createOk, env) ==
    LET dataPath == GetString(flags, "data")
        column == GetString(flags, "column")
        dqChecker == getChecker(s, createOk)
    IN IF dataPath = "" \/ column = ""
       THEN Ran(dqChecker, << <<"error", "missing_flags">> >>, {"logger", "checker"}, NoCall)
       ELSE LET q == IsColumnUniqueQuery(fs[dataPath], column)
            IN Report(CheckOn(dqChecker, "is_column_unique", <<dataPath>>, <<column>>,
                              NoArgs, q, Scan(q), CountIsZero(q),
                              [column |-> column, data_path |-> dataPath,
                               error_count |-> q.val], env))

checkUniqueCmd(s, flags, createOk, env) ==
    LET dataPath == GetString(flags, "data")
        column == GetString(flags, "column")
    IN IF dataPath = "" \/ column = "" THEN MissingRequiredFlags(s)
       ELSE LET q == IsColumnUniqueQuery(fs[dataPath], column)
            IN Report(CheckOn(getChecker(s, createOk), "is_column_unique", <<dataPath>>,
                              <<column>>, NoArgs, q, Scan(q), CountIsZero(q),
                              [column |-> column, data_path |-> dataPath,
                               error_count |-> q.val], env))

checkBetweenCmd(s, flags, createOk, env) ==
    LET dataPath == GetString(flags, "data")
        column == GetString(flags, "column")
        min == GetFloat64(flags, "min")
        max == GetFloat64(flags, "max")
    IN IF dataPath = "" \/ column = "" THEN MissingRequiredFlags(s)
       ELSE LET q == IsColumnBetweenQuery(fs[dataPath], column, min, max)
            IN Report(CheckOn(getChecker(s, createOk), "is_column_between", <<dataPath>>,
                              <<column>>, [min |-> min, max |-> max], q, Scan(q),
                              CountIsZero(q),
                              [column |-> column, min |-> min, max |-> max,
                               data_path |-> dataPath, error_count |-> q.val], env))

showLogsCmd(s, createOk) ==
    LET connector == createLogTable(s, createOk)
    IN Ran(connector,
           IF connector.table THEN << <<"plain", "logs">> >> ELSE << <<"error", "logs_error">> >>,
           {"logger"}, NoCall)

cleanLogsCmd(s, createOk, env) ==
    LET connector == createLogTable(s, createOk)
    IN IF connector.table /\ env.ioOk
       THEN Ran([connector EXCEPT !.rows = <<>>], << <<"success", "logs_cleared">> >>,
                {"logger"}, NoCall)
       ELSE Ran(connector, << <<"error", "logs_error">> >>, {"logger"}, NoCall)

\* The commands of the registry this model runs: two of the 21 check commands
\* (all of one shape) and the two log commands.
Commands == {"check-unique", "check-between", "show-logs", "clean-logs"}

\* rootCmd.Execute(): an argv naming no command of the registry, or holding a
\* flag its command does not define, is an error of Execute and no Run is
\* called; otherwise the command's Run is called and Execute returns nil.
Execute(s, argv, createOk, env) ==
    IF argv.cmd \notin Commands \/ ~argv.parses
    THEN [err |-> TRUE, run |-> Ran(s, <<>>, {}, NoCall)]
    ELSE [err |-> FALSE,
          run |-> CASE argv.cmd = "check-unique" -> checkUniqueCmd(s, argv.flags, createOk, env)
                    [] argv.cmd = "check-between" -> checkBetweenCmd(s, argv.flags, createOk, env)
                    [] argv.cmd = "show-logs" -> showLogsCmd(s, createOk)
                    [] argv.cmd = "clean-logs" -> cleanLogsCmd(s, createOk, env)]

\* An exit code that reports a failed check as a failed process.
ExitCodeOfCheck(e) == IF e.err \/ (e.run.call.op # "none" /\ ~e.run.call.result) THEN 1 ELSE 0

\* if err := rootCmd.Execute(); err != nil { fmt.Println(err); os.Exit(1) }
ExitCode(e) == IF e.err THEN 1 ELSE 0

\* One run of the dqc process.
main(argv, createOk, env) ==
    LET e == Execute(store, argv, createOk, env)
    IN /\ Budget
       /\ calls' = calls - 1
       /\ store' = e.run.store
       /\ last' = [op |-> "dqc", argv |-> argv, exit |-> ExitCode(e),
                   printed |-> e.run.printed \o
                               (IF e.err THEN << <<"plain", "execute_error">> >> ELSE <<>>),
                   constructed |-> e.run.constructed, call |-> e.run.call,
                   created |-> store.table, before |-> store.rows]
       /\ UNCHANGED <<fs, clock>>

\* The flags of each command, given or not; a command line may also hold a flag
\* its command does not define, or name no command.
FlagsOf(cmd) ==
    CASE cmd = "check-unique" ->
             [data : {NULL, Some(""), Some("data.csv"), Some("missing.csv")},
              column : {NULL, Some(""), Some("id"), Some("grp")}]
      [] cmd = "check-between" ->
             [data : {NULL, Some(""), Some("data.csv")},
              column : {NULL, Some("id"), Some("nope")},
              min : {NULL, Some(16)}, max : {NULL, Some(30)}]
      [] OTHER -> {<<>>}
Argvs ==
    {[cmd |-> "bogus", flags |-> <<>>, parses |-> TRUE]}
        \cup UNION {[cmd : {c}, flags : FlagsOf(c), parses : BOOLEAN] : c \in Commands}

CliInit ==
    /\ fs = Files(DataCsv, RefCsv)
    /\ store \in {BrokenStore, EmptyStore, UsedStore}
    /\ clock = 0
    /\ last = NoCall
    /\ calls = MaxCalls
CliNext == \E argv \in Argvs, createOk \in BOOLEAN, e \in LogEnvs : main(argv, createOk, e)
SpecCli == CliInit /\ [][CliNext]_vars

\* ------------------------------------------------------------- two invocations
\* Two check-unique invocations, each with a checker and a connector of its
\* own on the one log store, taken a step at a time: the construction and the
\* query, the reading of the clock inside Log, and the INSERT (one statement,
\* which the store runs whole or refuses). `last` holds how far each has got.
Invocation(i) == last.of[i]
Step(i, inv) ==
    /\ Budget
    /\ calls' = calls - 1
    /\ last' = [last EXCEPT !.of[i] = inv]

\* getChecker(), validatePathExists and the counting query of invocation i.
IsColumnUniqueQueried(i, column, createOk) ==
    LET q == IsColumnUniqueQuery(fs["data.csv"], column)
    IN /\ Invocation(i).pc = "start"
       /\ store' = getChecker(store, createOk)
       /\ Step(i, [Invocation(i) EXCEPT !.pc = IF Scan(q).ok THEN "queried" ELSE "returned",
                                        !.column = column,
                                        !.result = Scan(q).ok /\ CountIsZero(q),
                                        !.val = IF Scan(q).ok THEN Some(q.val) ELSE NULL,
                                        !.err = IF Scan(q).ok THEN "nil" ELSE "query"])
       /\ UNCHANGED <<fs, clock>>

\* timestamp := time.Now().Format(time.RFC3339) in invocation i's Log.
LogTimestamp(i) ==
    /\ Invocation(i).pc = "queried"
    /\ Step(i, [Invocation(i) EXCEPT !.pc = "stamped", !.timestamp = clock])
    /\ UNCHANGED <<fs, store, clock>>

\* An INSERT that is tried a second time when the first try fails.
LogInsertRetrying(i, ioOk) ==
    LET inv == Invocation(i)
        l == Log(store, inv.timestamp, "is_column_unique", inv.result,
                 [column |-> inv.column, data_path |-> "data.csv",
                  error_count |-> Get(inv.val)], TRUE)
    IN /\ inv.pc = "stamped"
       /\ store' = l.store
       /\ Step(i, [inv EXCEPT !.pc = "returned",
                              !.result = ReturnOnLogError(inv.result),
                              !.err = IF l.ok THEN "nil" ELSE "log",
                              !.attempts = IF ioOk THEN 1 ELSE 2])
       /\ UNCHANGED <<fs, clock>>

\* db.Exec(INSERT ...) of invocation i's Log, and the check's return.
LogInsert(i, ioOk) ==
    LET inv == Invocation(i)
        l == Log(store, inv.timestamp, "is_column_unique", inv.result,
                 [column |-> inv.column, data_path |-> "data.csv",
                  error_count |-> Get(inv.val)], ioOk)
    IN /\ inv.pc = "stamped"
       /\ store' = l.store
       /\ Step(i, [inv EXCEPT !.pc = "returned",
                              !.result = ReturnOnLogError(inv.result),
                              !.err = IF l.ok THEN "nil" ELSE "log",
                              !.attempts = @ + 1])
       /\ UNCHANGED <<fs, clock>>

InterleavedInit ==
    /\ fs = Files(DataCsv, RefCsv)
    /\ store \in {BrokenStore, EmptyStore, UsedStore}
    /\ clock = 0
    /\ calls = MaxCalls + 6
    /\ last = [op |-> "invocations", before |-> store.rows,
               of |-> [i \in {1, 2} |->
                          [pc |-> "start", column |-> "", result |-> FALSE, val |-> NULL,
                           err |-> "nil", timestamp |-> 0, attempts |-> 0]]]
InterleavedNext ==
    \/ \E i \in {1, 2}, column \in NumCols, createOk \in BOOLEAN :
           IsColumnUniqueQueried(i, column, createOk)
    \/ \E i \in {1, 2} : LogTimestamp(i)
    \/ \E i \in {1, 2}, ioOk \in BOOLEAN : LogInsert(i, ioOk)
    \/ Tick
SpecInterleaved == InterleavedInit /\ [][InterleavedNext]_vars

\* tables-referential-integral of orders against users on user_id.
OrderUsers == {1, 2}
KnownUsers == {1}
ReferentialInit ==
    /\ fs \in {Files(o, u) : o \in TablesOver("user_id", OrderUsers),
                             u \in TablesOver("user_id", KnownUsers)}
    /\ store = EmptyStore
    /\ clock = 0
    /\ last = NoCall
    /\ calls = MaxCalls
ReferentialNext ==
    Budget /\ \E e \in LogEnvs :
        AreTablesReferentialIntegral("data.csv", "ref.csv", <<"user_id">>, e)
SpecReferential == ReferentialInit /\ [][ReferentialNext]_vars

\* ------------------------------------------------------------- the logger on its own
LoggerInit ==
    /\ fs = Files(DataCsv, RefCsv)
    /\ store \in {EmptyStore, UsedStore, BrokenStore}
    /\ clock = 0
    /\ last = NoCall
    /\ calls = MaxCalls + 2
LoggerNext ==
    \/ \E createOk \in BOOLEAN : NewDBConnector(createOk)
    \/ \E result \in BOOLEAN, params \in ParamMaps, ioOk \in BOOLEAN :
           DBConnectorLog("check1", result, params, ioOk)
    \/ PrintAllLogs
    \/ \E ioOk \in BOOLEAN : ClearLogs(ioOk)
    \/ Tick
    \/ \E c \in TwiceCols, e \in LogEnvs : IsColumnUnique("data.csv", c, e)
SpecLogger == LoggerInit /\ [][LoggerNext]_vars

\* ------------------------------------------------------------- the same call twice
\* Each of the 21 checks on data.csv.
Checks(cols, env) ==
    \/ Budget /\ \E c \in cols : IsColumnUnique("data.csv", c, env)
    \/ Budget /\ \E c \in cols : IsColumnNotNull("data.csv", c, env)
    \/ Budget /\ \E l \in StrLists : IsColumnEnum("data.csv", "status", l, env)
    \/ Budget /\ \E k \in KeyLists : AreTablesReferentialIntegral("data.csv", "ref.csv", k, env)
    \/ Budget /\ \E c \in cols : IsColumnInData("data.csv", c, env)
    \/ Budget /\ \E b \in NumBounds : IsColumnBetween("data.csv", "id", b[1], b[2], env)
    \/ Budget /\ \E r \in Regexes : IsColumnRegexMatch("data.csv", "status", r, env)
    \/ Budget /\ \E t \in Types : IsColumnOfType("data.csv", "day", t, env)
    \/ Budget /\ \E b \in LenBounds : IsColumnLengthBetween("data.csv", "status", b[1], b[2], env)
    \/ Budget /\ \E b \in AggBounds : IsColumnMaxBetween("data.csv", "id", b[1], b[2], env)
    \/ Budget /\ \E b \in AggBounds : IsColumnMinBetween("data.csv", "id", b[1], b[2], env)
    \/ Budget /\ \E b \in AggBounds : IsColumnMeanBetween("data.csv", "id", b[1], b[2], env)
    \/ Budget /\ \E b \in AggBounds : IsColumnMedianBetween("data.csv", "grp", b[1], b[2], env)
    \/ Budget /\ \E f \in Formats : IsColumnDateFormat("data.csv", "day", f, env)
    \/ Budget /\ \E b \in CountBounds : IsTableRowCountBetween("data.csv", b[1], b[2], env)
    \/ Budget /\ \E b \in CountBounds : IsTableColumnCountBetween("data.csv", b[1], b[2], env)
    \/ Budget /\ \E l \in StrLists : IsColumnNotInSet("data.csv", "status", l, env)
    \/ Budget /\ \E c \in cols : IsColumnIncreasing("data.csv", c, env)
    \/ Budget /\ IsColumnDateParseable("data.csv", "day", env)
    \/ Budget /\ \E c \in cols : AreColumnPairsEqual("data.csv", c, "grp", env)
    \/ Budget /\ \E l \in StrLists : AreDistinctValuesInSet("data.csv", "status", l, env)

TwiceInit ==
    /\ fs = Files(DataCsv, RefCsv)
    /\ store \in {EmptyStore, UsedStore}
    /\ clock = 0
    /\ last = NoCall
    /\ calls = MaxCalls + 1
TwiceNext ==
    \/ Checks(TwiceCols, NoEnvFailure)
    \/ Tick
SpecTwice == TwiceInit /\ [][TwiceNext]_vars

\* ------------------------------------------------------------- reading a call
CheckOps ==
    {"is_column_unique", "is_column_not_null", "is_column_enum",
     "are_tables_referential_integral", "is_column_in_data", "is_column_between",
     "is_column_regex_match", "is_column_of_type", "is_column_length_between",
     "is_column_max_between", "is_column_min_between", "is_column_mean_between",
     "is_column_median_between", "is_column_date_format", "is_table_row_count_between",
     "is_table_column_count_between", "is_column_not_in_set", "is_column_increasing",
     "is_column_date_parseable", "are_column_pairs_equal", "are_distinct_values_in_set"}
AggregateOps ==
    {"is_column_max_between", "is_column_min_between", "is_column_mean_between",
     "is_column_median_between"}
ShapeOps == {"is_table_row_count_between", "is_table_column_count_between"}

IsCheck(l) == l.op \in CheckOps
Happened(l, kind) == \E i \in 1..Len(l.trace) : l.trace[i][1] = kind
PathsReadable(l) == \A i \in 1..Len(l.paths) : IsTable(fs[l.paths[i]])
\* The first path of the call that is missing or unreadable.
FirstBadPath(l) ==
    l.paths[CHOOSE i \in 1..Len(l.paths) :
                /\ ~IsTable(fs[l.paths[i]])
                /\ \A j \in 1..(i - 1) : IsTable(fs[l.paths[j]])]
\* Every sql.Open("duckdb") the call needs succeeds.
EngineOpens(l) == l.env.openFailAt \notin 1..(Len(l.paths) + 1)
\* A column the call names that one of its files lacks.
MissingColumn(l) ==
    \E i \in 1..Len(l.paths), j \in 1..Len(l.cols) : ~HasColumn(fs[l.paths[i]], l.cols[j])
LogUnchanged == store.rows = last.before
\* The log is what it was plus one record at the end.
AppendedOne ==
    /\ Len(store.rows) = Len(last.before) + 1
    /\ SubSeq(store.rows, 1, Len(last.before)) = last.before
NewRecord == store.rows[Len(store.rows)]

\* The boolean a check owes its caller, from the scalar it scanned.
Verdict(l) ==
    CASE l.op = "is_column_in_data" -> HasColumn(fs[l.paths[1]], l.cols[1])
      [] l.op \in AggregateOps -> WithinBounds(Get(l.val), l.args.min, l.args.max)
      [] l.op \in ShapeOps -> l.args.min <= Get(l.val) /\ Get(l.val) <= l.args.max
      [] OTHER -> Get(l.val) = 0

\* ------------------------------------------------------------- C1
\* C1: for every check except column-in-data, a counting or aggregate query the
\* engine rejects (a missing column, for one) makes the check return that error
\* with boolean false, and the log holds exactly the records it held before.
C1_QueryErrorNotLogged ==
    (IsCheck(last) /\ last.op # "is_column_in_data") =>
        /\ Happened(last, "duckdb.error") =>
               /\ last.result = FALSE
               /\ last.err = "query"
               /\ LogUnchanged
               /\ ~Happened(last, "sqlite.exec")
        /\ (PathsReadable(last) /\ EngineOpens(last) /\ MissingColumn(last)) =>
               Happened(last, "duckdb.error")

\* column-unique on a column the file lacks, on a log that already holds a
\* record.
C1_Witness ==
    /\ last.op = "is_column_unique"
    /\ last.cols = <<"nope">>
    /\ last.err = "query"
    /\ last.before # <<>>
    /\ store.rows = last.before

\* ------------------------------------------------------------- C2
\* C2: for each of the 21 checks, a referenced path that is missing or
\* unreadable makes the check return the validation error of the first such
\* path with boolean false, without running its query and without logging.
C2_PathErrorNotLogged ==
    (IsCheck(last) /\ ~PathsReadable(last)) =>
        /\ last.result = FALSE
        /\ last.err \in {"not_found", "unreadable", "open"}
        /\ last.env.openFailAt = 0 =>
               last.err = IF fs[FirstBadPath(last)].kind = "absent"
                          THEN "not_found" ELSE "unreadable"
        /\ ~Happened(last, "duckdb.query")
        /\ ~Happened(last, "sqlite.exec")
        /\ LogUnchanged

\* The referential check whose data file is readable and whose reference file
\* is not, on a log that already holds a record.
C2_Witness ==
    /\ last.op = "are_tables_referential_integral"
    /\ last.paths = <<"data.csv", "garbage.bin">>
    /\ last.err = "unreadable"
    /\ last.before # <<>>
    /\ store.rows = last.before

\* ------------------------------------------------------------- C3
\* The key each argument is logged under.
ParamKey(op, arg) ==
    CASE arg = "min" -> IF op \in AggregateOps \cup ShapeOps THEN "min_allowed" ELSE "min"
      [] arg = "max" -> IF op \in AggregateOps \cup ShapeOps THEN "max_allowed" ELSE "max"
      [] arg = "enumValues" -> "enum_values"
      [] arg = "targetType" -> "target_type"
      [] arg = "blacklistedValues" -> "blacklist"
      [] arg = "allowedValues" -> "allowed"
      [] OTHER -> arg
\* The key the computed count or aggregate is logged under; column-in-data
\* computes none.
ValueKey(op) ==
    CASE op = "is_column_max_between" -> "max_value"
      [] op = "is_column_min_between" -> "min_value"
      [] op = "is_column_mean_between" -> "avg_value"
      [] op = "is_column_median_between" -> "median_value"
      [] op = "is_table_row_count_between" -> "row_count"
      [] op = "is_table_column_count_between" -> "col_count"
      [] OTHER -> "error_count"
ColumnsLogged(l, p) ==
    CASE l.op = "are_tables_referential_integral" -> p.join_keys = l.cols
      [] l.op = "are_column_pairs_equal" -> p.column1 = l.cols[1] /\ p.column2 = l.cols[2]
      [] l.op \in ShapeOps -> TRUE
      [] OTHER -> p.column = l.cols[1]

\* C3: a check call that reaches a boolean result and whose log write succeeds
\* appends exactly one record: its check_type is the check's name, its result
\* is the boolean returned, and its params hold the path(s), the column(s) or
\* keys, the thresholds and the computed count or aggregate.
C3_ResultLogged ==
    (IsCheck(last) /\ last.err = "nil") =>
        /\ AppendedOne
        /\ NewRecord.data_quality_check_type = last.op
        /\ NewRecord.result = (IF last.result THEN 1 ELSE 0)
        /\ last.result = Verdict(last)
        /\ NewRecord.additional_params # NULL
        /\ LET p == Get(NewRecord.additional_params)
           IN /\ p.data_path = last.paths[1]
              /\ Len(last.paths) = 2 => p.reference_path = last.paths[2]
              /\ ColumnsLogged(last, p)
              /\ \A a \in DOMAIN last.args : p[ParamKey(last.op, a)] = last.args[a]
              /\ last.op # "is_column_in_data" => p[ValueKey(last.op)] = Get(last.val)

\* A failed data-quality rule, logged after an older record with its count.
C3_Witness ==
    /\ last.op = "is_column_between"
    /\ last.err = "nil"
    /\ last.result = FALSE
    /\ last.before # <<>>
    /\ Len(store.rows) = 2
    /\ Get(NewRecord.additional_params).error_count = 1

\* ------------------------------------------------------------- C4
\* C4: column-in-data on a readable file, with the engine and the log store
\* working, returns true for a column the file has and false for one it lacks,
\* without an error, and logs one record with that boolean; a projection the
\* engine rejects is never returned as an error.
C4_ColumnInData ==
    (last.op = "is_column_in_data" /\ PathsReadable(last)) =>
        /\ last.err # "query"
        /\ (EngineOpens(last) /\ last.env.ioOk /\ store.table) =>
               /\ last.err = "nil"
               /\ last.result = HasColumn(fs[last.paths[1]], last.cols[1])
               /\ AppendedOne
               /\ NewRecord.data_quality_check_type = "is_column_in_data"
               /\ NewRecord.result = (IF last.result THEN 1 ELSE 0)

\* The column the file lacks: false, no error, one record with result 0.
C4_Witness ==
    /\ last.op = "is_column_in_data"
    /\ last.paths = <<"data.csv">>
    /\ last.cols = <<"nope">>
    /\ last.err = "nil"
    /\ last.result = FALSE
    /\ Happened(last, "duckdb.error")
    /\ NewRecord.result = 0

\* ------------------------------------------------------------- C5
\* C5: when the log append fails after a check computed its boolean, the check
\* returns a log-write error together with that boolean, the value it would
\* have returned had the append succeeded.
C5_LogErrorKeepsResult ==
    (IsCheck(last) /\ Happened(last, "sqlite.exec") /\ (~last.env.ioOk \/ ~store.table)) =>
        /\ last.err = "log"
        /\ last.result = Verdict(last)
        /\ LogUnchanged

\* A passing check whose append failed: true, with the log-write error.
C5_Witness ==
    /\ IsCheck(last)
    /\ last.err = "log"
    /\ last.result = TRUE
    /\ ~last.env.ioOk
    /\ last.before # <<>>

\* ------------------------------------------------------------- the checked column
\* The call reached a boolean result: its query returned a scalar.
ReachedResult(l) == l.val # NULL
Logged(l) == l.err = "nil"
\* The cells of the call's first column in its first file, in row order.
Column(l) ==
    LET f == fs[l.paths[1]]
    IN [i \in 1..Len(f.rows) |-> f.rows[i][l.cols[1]]]
Occurrences(col, x) == Cardinality({i \in 1..Len(col) : col[i] = x})
\* The cells, NULL among them, found in more than one row.
Duplicated(col) == {x \in Range(col) : Occurrences(col, x) > 1}
\* For each duplicated cell its rows beyond the first, summed.
ExcessRows(col) == Len(col) - Cardinality(Range(col))
NullRows(col) == Cardinality({i \in 1..Len(col) : col[i] = NULL})
\* The rows holding a value for which Bad is true.
RowsWith(col, Bad(_)) == Cardinality({i \in 1..Len(col) : col[i] # NULL /\ Bad(Get(col[i]))})
LoggedCount == Get(NewRecord.additional_params).error_count

\* ------------------------------------------------------------- C6
\* C6 as the code has it: column-unique returns true and logs error_count = 0
\* exactly when no cell (NULL counted as one) is found in more than one row;
\* otherwise it returns false and logs error_count = the number of distinct
\* duplicated cells, not the number of rows beyond the first of each.
C6_UniqueCountsDuplicatedValues ==
    (last.op = "is_column_unique" /\ ReachedResult(last)) =>
        /\ Get(last.val) = Cardinality(Duplicated(Column(last)))
        /\ last.result = (Duplicated(Column(last)) = {})
        /\ Logged(last) => LoggedCount = Cardinality(Duplicated(Column(last)))

\* One value in three rows: one duplicated value, two excess rows.
C6_Witness ==
    /\ last.op = "is_column_unique"
    /\ Logged(last)
    /\ last.result = FALSE
    /\ Cardinality(Duplicated(Column(last))) = 1
    /\ ExcessRows(Column(last)) = 2
    /\ LoggedCount = 1

\* C6 as stated: column-unique returns true with error_count = 0 on a column
\* without duplicates, and otherwise false with error_count = the duplicate
\* groups' excess rows.
C6_UniqueCountsExcessRows ==
    (last.op = "is_column_unique" /\ Logged(last)) =>
        /\ last.result = (Duplicated(Column(last)) = {})
        /\ LoggedCount = ExcessRows(Column(last))

\* ------------------------------------------------------------- C7
\* C7: tables-referential-integral returns true exactly when every non-null
\* join key of the data file is found in the reference file; a row whose join
\* key is NULL does not make the check fail.
C7_NullKeysPass ==
    (last.op = "are_tables_referential_integral" /\ ReachedResult(last)) =>
        last.result =
            (\A i \in 1..Len(Column(last)) :
                Column(last)[i] # NULL =>
                    \E j \in 1..Len(fs[last.paths[2]].rows) :
                        fs[last.paths[2]].rows[j][last.cols[1]] = Column(last)[i])

\* ------------------------------------------------------------- C8
\* C8: column-not-null returns false if and only if at least one row has a
\* NULL in the column, and the logged error_count is the number of such rows.
C8_NotNullCountsNulls ==
    (last.op = "is_column_not_null" /\ ReachedResult(last)) =>
        /\ last.result = FALSE <=> NullRows(Column(last)) > 0
        /\ Get(last.val) = NullRows(Column(last))
        /\ Logged(last) => LoggedCount = NullRows(Column(last))

\* Two NULLs next to a value: false, error_count = 2.
C8_Witness ==
    /\ last.op = "is_column_not_null"
    /\ Logged(last)
    /\ last.result = FALSE
    /\ Len(Column(last)) = 3
    /\ LoggedCount = 2

\* ------------------------------------------------------------- C9
\* C9: a column-enum call that reaches a result returns true if and only if
\* every non-null value of the column is in the allowed list; a NULL is never
\* counted, and error_count is the number of non-null rows outside the list.
C9_EnumIgnoresNulls ==
    (last.op = "is_column_enum" /\ ReachedResult(last)) =>
        LET Outside(v) == v \notin Range(last.args.enumValues)
        IN /\ last.result = (RowsWith(Column(last), Outside) = 0)
           /\ Get(last.val) = RowsWith(Column(last), Outside)
           /\ Logged(last) => LoggedCount = RowsWith(Column(last), Outside)

\* NULLs next to one value outside the list: only that value is counted.
C9_Witness ==
    /\ last.op = "is_column_enum"
    /\ Logged(last)
    /\ NullRows(Column(last)) = 2
    /\ last.result = FALSE
    /\ LoggedCount = 1

\* ------------------------------------------------------------- C10
\* C10: column-between returns true if and only if no row has a value below
\* min or above max, a value equal to min or to max is never counted, and the
\* logged error_count is the number of rows outside [min, max].
C10_BetweenInclusive ==
    (last.op = "is_column_between" /\ ReachedResult(last)) =>
        LET Outside(v) == v < last.args.min \/ v > last.args.max
        IN /\ last.result = (RowsWith(Column(last), Outside) = 0)
           /\ Get(last.val) = RowsWith(Column(last), Outside)
           /\ Logged(last) => LoggedCount = RowsWith(Column(last), Outside)

\* ------------------------------------------------------------- C11
SameCall(a, b) ==
    /\ a.op = b.op /\ a.paths = b.paths /\ a.cols = b.cols /\ a.args = b.args
    /\ a.env = b.env

IsAppend(l) == (IsCheck(l) \/ l.op = "log") /\ l.err = "nil"
\* What PrintAllLogs lists for the rows it read.
Listing(rows) == [i \in 1..Len(rows) |-> Scanned(rows[i])]

\* C12: after ClearLogs the log holds no record, however many it held before,
\* and PrintAllLogs lists none; one append to an empty log makes it hold, and
\* PrintAllLogs list, exactly one record.
C12_ClearThenAppend ==
    /\ (last.op = "clear_logs" /\ last.err = "nil") => store.rows = <<>>
    /\ (last.op = "print_all_logs" /\ last.err = "nil") => last.out = Listing(store.rows)
    /\ (IsAppend(last) /\ last.before = <<>>) => Len(store.rows) = 1

\* A used log cleared, then one append, then PrintAllLogs: one record, the new one.
C12_Witness ==
    /\ last.op = "print_all_logs"
    /\ Len(last.out) = 1
    /\ last.out[1].ID = 3
    /\ last.out[1].DataQualityCheckType = "check1"

\* ------------------------------------------------------------- C13
\* C13: in every state of the log store the ids are pairwise distinct and
\* strictly increasing in insertion order, and PrintAllLogs lists the records
\* in that ascending-id, insertion order.
C13_IdsIncrease ==
    /\ \A i, j \in 1..Len(store.rows) : i < j => store.rows[i].id < store.rows[j].id
    /\ (last.op = "print_all_logs" /\ last.err = "nil") =>
           /\ last.out = Listing(store.rows)
           /\ \A i, j \in 1..Len(last.out) : i < j => last.out[i].ID < last.out[j].ID

\* Two appends to a used log, then PrintAllLogs: ids 2, 3, 4 in that order.
C13_Witness ==
    /\ last.op = "print_all_logs"
    /\ Len(last.out) = 3
    /\ last.out[1].ID = 2
    /\ last.out[3].ID = 4

\* ------------------------------------------------------------- C14
\* C14: a step changes the records only by appending one after the others,
\* which stay as they were, or by removing them all; only an append through
\* Log adds one and only ClearLogs removes them. NewDBConnector on an existing
\* store, PrintAllLogs and a check that ends in an error leave every record
\* as it was.
C14_RecordsImmutable ==
    [][LET same == store'.rows = store.rows
           appended == /\ Len(store'.rows) = Len(store.rows) + 1
                       /\ SubSeq(store'.rows, 1, Len(store.rows)) = store.rows
           cleared == store'.rows = <<>>
           called == clock' = clock
       IN /\ ~same => /\ called
                      /\ \/ appended /\ IsAppend(last')
                         \/ cleared /\ last'.op = "clear_logs"
          /\ (called /\ IsAppend(last')) => appended
          /\ (called /\ last'.op \in {"new_db_connector", "print_all_logs"}) => same
          /\ (called /\ IsCheck(last') /\ last'.err # "nil") => same]_vars

\* NewDBConnector on a store that holds a record: the record is still there.
C14_Witness ==
    /\ last.op = "new_db_connector"
    /\ last.err = "nil"
    /\ last.before # <<>>
    /\ store.rows = last.before

\* ------------------------------------------------------------- C15
\* C15: the record stored by Log(checkType, result, params) has
\* data_quality_check_type = checkType, result 1 for true and 0 for false, the
\* timestamp of the moment of the call, and additional_params NULL exactly
\* when params is nil or empty, the serialized map otherwise.
C15_StoredRecord ==
    [][(clock' = clock /\ last'.op = "log" /\ last'.err = "nil") =>
          LET stored == store'.rows[Len(store'.rows)]
              args == last'.args
          IN /\ Len(store'.rows) = Len(store.rows) + 1
             /\ SubSeq(store'.rows, 1, Len(store.rows)) = store.rows
             /\ stored.data_quality_check_type = args.checkType
             /\ stored.result = (IF args.result THEN 1 ELSE 0)
             /\ stored.timestamp = clock
             /\ stored.additional_params = NULL <=> DOMAIN args.params = {}
             /\ DOMAIN args.params # {} => stored.additional_params = Some(args.params)]_vars

\* Log("check1", false, nil) one second after the start, on a used log.
C15_Witness ==
    /\ last.op = "log"
    /\ last.err = "nil"
    /\ last.before # <<>>
    /\ last.args.result = FALSE
    /\ last.args.params = NoParams
    /\ NewRecord.result = 0
    /\ NewRecord.timestamp = 1
    /\ NewRecord.additional_params = NULL

\* ------------------------------------------------------------- C16
\* C16: NewDBConnector returns a connector whether or not the log table could
\* be created; a check run on a store without the table still computes its
\* boolean, and the missing table shows as the log-write error of its append,
\* the boolean returned with it.
C16_ConstructionNeverFails ==
    /\ last.op = "new_db_connector" =>
           /\ last.result = TRUE
           /\ last.err \in {"nil", "create"}
           /\ LogUnchanged
    /\ (IsCheck(last) /\ ~store.table /\ PathsReadable(last) /\ EngineOpens(last)
            /\ ~Happened(last, "duckdb.error")) =>
           /\ ReachedResult(last)
           /\ last.result = Verdict(last)
           /\ last.err = "log"

\* column-unique passes on a store without the log table: true, with the
\* log-write error, nothing else failing.
C16_Witness ==
    /\ last.op = "is_column_unique"
    /\ ~store.table
    /\ last.env = NoEnvFailure
    /\ last.result = TRUE
    /\ last.err = "log"

\* ------------------------------------------------------------- C17
\* The paths the call looked up with os.Stat, in order.
Validated(l) ==
    LET stats == SelectSeq(l.trace, LAMBDA e : e[1] = "os.stat")
    IN [i \in 1..Len(stats) |-> stats[i][2]]
Projections(l) == Len(SelectSeq(l.trace, LAMBDA e : e[1] = "duckdb.exec"))

\* C17: validation fails with not-found on an absent entry and with unreadable
\* on an entry the engine cannot project; a call validates each of its paths
\* once, in order, and a path only if the paths before it validated (the
\* reference path of tables-referential-integral only after the data path).
C17_ValidationOncePerPath ==
    IsCheck(last) =>
        LET v == Validated(last)
            n == Len(v)
        IN /\ n \in 1..Len(last.paths)
           /\ v = SubSeq(last.paths, 1, n)
           /\ \A i \in 1..(n - 1) : IsTable(fs[v[i]])
           /\ Projections(last) <= n
           /\ n < Len(last.paths) => ~IsTable(fs[v[n]]) \/ last.err = "open"
           /\ fs[v[n]].kind = "absent" => last.err = "not_found" /\ Projections(last) = n - 1
           /\ (fs[v[n]].kind = "garbage" /\ last.env.openFailAt \notin 1..n) =>
                  last.err = "unreadable" /\ Projections(last) = n
           /\ (PathsReadable(last) /\ last.env.openFailAt \notin 1..n) =>
                  n = Len(last.paths) /\ Projections(last) = n

\* The referential check on a missing data file: one lookup, the reference
\* path is never validated.
C17_Witness ==
    /\ last.op = "are_tables_referential_integral"
    /\ last.paths = <<"missing.csv", "ref.csv">>
    /\ Validated(last) = <<"missing.csv">>
    /\ last.err = "not_found"


\* ------------------------------------------------------------- C18
\* The non-NULL values of the call's column, smallest first.
Present(l) == Sorted(NonNull(fs[l.paths[1]], l.cols[1]))
\* x is the scalar the check of l computes over its file.
IsScalarOf(l, x) ==
    LET f == fs[l.paths[1]]
    IN CASE l.op = "is_table_row_count_between" -> x = Len(f.rows)
         [] l.op = "is_table_column_count_between" -> x = Len(f.cols)
         [] l.op = "is_column_max_between" ->
                x.den = 1 /\ x.num = Present(l)[Len(Present(l))]
         [] l.op = "is_column_min_between" -> x.den = 1 /\ x.num = Present(l)[1]
         [] l.op = "is_column_mean_between" ->
                x.num * Len(Present(l)) = x.den * SumSeq(Present(l))
         [] l.op = "is_column_median_between" ->
                LET n == Len(Present(l))
                IN 2 * x.num = x.den * (Present(l)[(n + 1) \div 2] + Present(l)[n \div 2 + 1])
\* min <= x <= max, both ends included.
Inclusive(l, x) ==
    IF l.op \in ShapeOps THEN l.args.min <= x /\ x <= l.args.max
    ELSE l.args.min * x.den <= x.num /\ x.num <= l.args.max * x.den

\* C18: an aggregate or table-shape check that reaches its result computes the
\* scalar of its file (the column count being the number of columns of the
\* schema, whatever the rows), returns true exactly when min <= scalar <= max,
\* both ends included, and logs the scalar and the two bounds and no
\* error_count.
C18_AggregateWithinBounds ==
    (last.op \in AggregateOps \cup ShapeOps /\ ReachedResult(last)) =>
        /\ IsScalarOf(last, Get(last.val))
        /\ last.result = Inclusive(last, Get(last.val))
        /\ Logged(last) =>
               LET params == Get(NewRecord.additional_params)
               IN /\ params[ValueKey(last.op)] = Get(last.val)
                  /\ params.min_allowed = last.args.min
                  /\ params.max_allowed = last.args.max
                  /\ "error_count" \notin DOMAIN params
\* The mean of 2 and 6 sits on the lower bound 4 and the check passes.
C18_Witness ==
    /\ last.op = "is_column_mean_between" /\ last.result /\ Logged(last)
    /\ Get(last.val).num = last.args.min * Get(last.val).den
    /\ Get(last.val).num \notin AmountValues
    /\ Get(NewRecord.additional_params).avg_value = Get(last.val)

\* ------------------------------------------------------------- C19
IsRun(l) == l.op = "dqc"
\* Execute dispatched the command line to a check command's Run.
CheckCommandRan(l) ==
    IsRun(l) /\ l.argv.cmd \in {"check-unique", "check-between"} /\ l.argv.parses
\* --data or --column was not given, or given as "".
RequiredFlagMissing(l) ==
    \E name \in {"data", "column"} : l.argv.flags[name] \in {NULL, Some("")}

\* C19: a check command run with a required flag missing or empty prints the
\* usage error and nothing else, invokes no check, constructs neither a checker
\* nor a logger, leaves the log store as it was (not created if it was not
\* there, no record added or removed), and the process does not exit with 1.
C19_MissingFlagsDoNothing ==
    (CheckCommandRan(last) /\ RequiredFlagMissing(last)) =>
        /\ last.printed = << <<"error", "missing_flags">> >>
        /\ last.call = NoCall
        /\ last.constructed = {}
        /\ store.table = last.created
        /\ store.rows = last.before
        /\ last.exit # 1
C19_Witness ==
    /\ CheckCommandRan(last) /\ last.argv.cmd = "check-unique"
    /\ last.argv.flags.data = Some("data.csv") /\ last.argv.flags.column = Some("")
    /\ ~last.created /\ ~store.table /\ last.printed = << <<"error", "missing_flags">> >>

\* ------------------------------------------------------------- C20
\* The check the command invoked returned (valid, nil).
Decided(l) == IsRun(l) /\ l.call.op \in CheckOps /\ l.call.err = "nil"

\* C20: a run whose check returned without error prints exactly one outcome
\* line, in the success style when the check passed and in the error style
\* when it failed, and exits with 0 either way; a run exits with 1 exactly when
\* Execute returned an error (no command of that name, or a flag that does
\* not parse), so never when a check was invoked, whatever it returned.
C20_ExitCodeIgnoresOutcome ==
    IsRun(last) =>
        /\ Decided(last) =>
               /\ last.printed = << <<IF last.call.result THEN "success" ELSE "error", "outcome">> >>
               /\ last.exit = 0
        /\ last.exit = 1 <=> (last.argv.cmd \notin Commands \/ ~last.argv.parses)
        /\ last.call.op \in CheckOps => last.exit = 0
        /\ last.exit \in {0, 1}
\* A check that failed its rule: an outcome line in the error style, exit code 0.
C20_Witness ==
    /\ Decided(last) /\ ~last.call.result /\ last.exit = 0
    /\ last.printed = << <<"error", "outcome">> >>
    /\ last.argv.cmd = "check-between"

\* ------------------------------------------------------------- C21
\* The rows of the call's file.
Rows(l) == fs[l.paths[1]].rows
\* Row r differs in the two columns, or holds exactly one of the two values.
PairViolated(r, col1, col2) ==
    \/ r[col1] # NULL /\ r[col2] # NULL /\ Get(r[col1]) # Get(r[col2])
    \/ (r[col1] = NULL) # (r[col2] = NULL)

\* C21: column-pairs-equal returns true exactly when no row differs in the two
\* columns or holds exactly one of the two values (a row with both NULL is
\* equal), and logs as error_count the number of such rows.
C21_PairsEqual ==
    (last.op = "are_column_pairs_equal" /\ ReachedResult(last)) =>
        LET bad == {i \in 1..Len(Rows(last)) :
                       PairViolated(Rows(last)[i], last.cols[1], last.cols[2])}
        IN /\ last.result = (bad = {})
           /\ Get(last.val) = Cardinality(bad)
           /\ Logged(last) => LoggedCount = Cardinality(bad)
\* Both values NULL in one row, only one of them NULL in another: one violation.
C21_Witness ==
    /\ last.op = "are_column_pairs_equal" /\ Logged(last) /\ ~last.result
    /\ \E i \in 1..Len(Rows(last)) : Rows(last)[i] = [a |-> NULL, b |-> NULL]
    /\ \E i \in 1..Len(Rows(last)) : Rows(last)[i] = [a |-> Some(1), b |-> NULL]
    /\ LoggedCount = 1

\* ------------------------------------------------------------- C22
\* Row i holds a value that is <= the value of row i - 1.
NotAbovePrevious(rows, c, i) ==
    /\ i > 1 /\ rows[i][c] # NULL /\ rows[i - 1][c] # NULL
    /\ Get(rows[i][c]) <= Get(rows[i - 1][c])

\* C22: column-increasing returns true exactly when no row holds a value <= the
\* value of the row right before it in input order (an equal value is a
\* violation, the first row never is), and logs as error_count the number of
\* such rows.
C22_Increasing ==
    (last.op = "is_column_increasing" /\ ReachedResult(last)) =>
        LET bad == {i \in 1..Len(Rows(last)) : NotAbovePrevious(Rows(last), last.cols[1], i)}
        IN /\ last.result = (bad = {})
           /\ 1 \notin bad
           /\ Get(last.val) = Cardinality(bad)
           /\ Logged(last) => LoggedCount = Cardinality(bad)
\* 1, 1, 2: the second row equals the first, the third is above the second.
C22_Witness ==
    /\ last.op = "is_column_increasing" /\ Logged(last) /\ ~last.result
    /\ Len(Rows(last)) = 3
    /\ Rows(last)[1].a = Some(1) /\ Rows(last)[2].a = Some(1) /\ Rows(last)[3].a = Some(2)
    /\ LoggedCount = 1

\* ------------------------------------------------------------- C23
\* The position of the first event of that kind in the call's trace, 0 if none.
FirstAt(l, kind) ==
    IF Happened(l, kind)
    THEN CHOOSE i \in 1..Len(l.trace) :
             l.trace[i][1] = kind /\ \A j \in 1..(i - 1) : l.trace[j][1] # kind
    ELSE 0
\* The call got as far as the log append.
LogAttempted(l) == IsCheck(l) /\ Happened(l, "sqlite.exec")
\* The events of a call over n paths that reaches the log append: per path the
\* stat and the validation's own session, then the query's session (with the
\* engine's error where column-in-data takes it for its answer), the logger,
\* and the release of the query's session.
EventsOfLoggedCall(l) ==
    LET n == Len(l.paths)
        validation(i) == <<Ev("os.stat", l.paths[i]), Ev("duckdb.open", i),
                           Ev("duckdb.exec", i), Ev("duckdb.close", i)>>
        validations == [j \in 1..(4 * n) |-> validation((j + 3) \div 4)[((j - 1) % 4) + 1]]
    IN validations \o <<Ev("duckdb.open", n + 1), Ev("duckdb.query", n + 1)>>
           \o (IF Happened(l, "duckdb.error") THEN <<Ev("duckdb.error", n + 1)>> ELSE <<>>)
           \o <<Ev("sqlite.open", 1), Ev("sqlite.exec", 1), Ev("sqlite.close", 1),
                Ev("duckdb.close", n + 1)>>

\* C23 as stated: when the log append starts, every engine session of the call,
\* the one of the counting query included, is closed.
C23_EngineClosedBeforeLog ==
    LogAttempted(last) =>
        \A i \in 1..Len(last.trace) :
            last.trace[i][1] = "duckdb.close" => i < FirstAt(last, "sqlite.open")

\* C23 as the code has it: a check call that reaches the log append does, in
\* this order, file-stat and the validation's own engine-open, projection and
\* engine-close for each path, then engine-open and query-execute for the
\* counting query, then the logger's open, write and close, and only then the
\* engine-close of the query's session (it is deferred to the return).
C23_EngineClosedAfterLog ==
    LogAttempted(last) =>
        /\ last.trace = EventsOfLoggedCall(last)
        /\ FirstAt(last, "os.stat") < FirstAt(last, "duckdb.query")
        /\ FirstAt(last, "duckdb.query") < FirstAt(last, "sqlite.open")
        /\ last.trace[Len(last.trace)] = Ev("duckdb.close", Len(last.paths) + 1)
C23_Witness ==
    /\ last.op = "is_column_unique" /\ Logged(last)
    /\ last.trace = <<Ev("os.stat", "data.csv"), Ev("duckdb.open", 1), Ev("duckdb.exec", 1),
                      Ev("duckdb.close", 1), Ev("duckdb.open", 2), Ev("duckdb.query", 2),
                      Ev("sqlite.open", 1), Ev("sqlite.exec", 1), Ev("sqlite.close", 1),
                      Ev("duckdb.close", 2)>>

\* ------------------------------------------------------------- C24
\* The positions in the call's trace of the events of that kind on session k.
At(l, kind, k) == {i \in 1..Len(l.trace) : l.trace[i] = Ev(kind, k)}
\* The engine sessions the call opened.
Opened(l) == {l.trace[i][2] : i \in {j \in 1..Len(l.trace) : l.trace[j][1] = "duckdb.open"}}
\* The events that run on an engine session.
OnSession == {"duckdb.exec", "duckdb.query", "duckdb.error"}

\* C24: when a check returns, on whichever path, every engine session it opened
\* was opened once and released once, after its one statement; no statement
\* runs outside its own session's open and close, and no session is opened
\* while another is open: every path validation that got to the engine and the
\* check's query each have a session of their own.
C24_SessionsReleased ==
    IsCheck(last) =>
        /\ \A k \in Opened(last) :
               /\ Cardinality(At(last, "duckdb.open", k)) = 1
               /\ Cardinality(At(last, "duckdb.close", k)) = 1
               /\ Cardinality(At(last, "duckdb.exec", k) \cup At(last, "duckdb.query", k)) = 1
               /\ \A i \in At(last, "duckdb.open", k), j \in At(last, "duckdb.close", k) :
                      /\ i < j
                      /\ \A h \in Opened(last) \ {k} :
                             \A m \in At(last, "duckdb.open", h) : m < i \/ m > j
        /\ \A i \in 1..Len(last.trace) :
               last.trace[i][1] \in OnSession \cup {"duckdb.close"} =>
                   /\ last.trace[i][2] \in Opened(last)
                   /\ \A o \in At(last, "duckdb.open", last.trace[i][2]),
                         c \in At(last, "duckdb.close", last.trace[i][2]) : o < i /\ i <= c
        /\ Cardinality(Opened(last)) =
               Cardinality({i \in 1..Len(last.trace) :
                               last.trace[i][1] \in {"duckdb.exec", "duckdb.query"}})
        /\ (PathsReadable(last) /\ last.env.openFailAt = 0) =>
               Cardinality(Opened(last)) = Len(last.paths) + 1
\* A tables-referential-integral call that succeeds: three sessions.
C24_Witness ==
    /\ last.op = "are_tables_referential_integral" /\ Logged(last)
    /\ Opened(last) = {1, 2, 3}
    /\ At(last, "duckdb.close", 3) = {Len(last.trace)}

\* ------------------------------------------------------------- C25
\* The call's column exists in its readable file and holds no value: the file
\* has no rows, or the column is NULL in every row.
ColumnWithoutValues(l) ==
    /\ HasColumn(fs[l.paths[1]], l.cols[1])
    /\ \A i \in 1..Len(Rows(l)) : Rows(l)[i][l.cols[1]] = NULL

\* C25: a column-max/min/mean/median-between call on a column without a
\* non-NULL value (the aggregate is NULL and cannot be scanned into a number)
\* returns false with an error, computes no pass/fail result and leaves the log
\* as it was.
C25_NullAggregateIsError ==
    (last.op \in AggregateOps /\ ColumnWithoutValues(last) /\ last.env.openFailAt = 0) =>
        /\ last.result = FALSE
        /\ last.err = "query"
        /\ ~ReachedResult(last)
        /\ LogUnchanged
        /\ ~Happened(last, "sqlite.exec")
\* The mean of a column of two NULL rows.
C25_Witness ==
    /\ last.op = "is_column_mean_between" /\ Len(Rows(last)) = 2 /\ ColumnWithoutValues(last)
    /\ last.env.ioOk /\ last.err = "query" /\ ~last.result /\ store.rows = <<>>

\* ------------------------------------------------------------- C26
\* No value of the column is held by two rows (the NULL rows aside).
ValuesDistinct(col) == \A i, j \in 1..Len(col) : (i # j /\ col[i] # NULL) => col[i] # col[j]

\* C26: column-unique counts NULL as one more value: on a column whose values
\* are pairwise distinct, two or more NULL rows make it return false with
\* error_count = 1, while no NULL row or exactly one makes it return true with
\* error_count = 0; and on any column exactly one NULL row changes nothing,
\* the check fails exactly when some value is held by two rows.
C26_NullIsOneGroup ==
    (last.op = "is_column_unique" /\ ReachedResult(last)) =>
        /\ (ValuesDistinct(Column(last)) /\ NullRows(Column(last)) >= 2) =>
               /\ ~last.result
               /\ Get(last.val) = 1
               /\ Logged(last) => LoggedCount = 1
        /\ (ValuesDistinct(Column(last)) /\ NullRows(Column(last)) <= 1) =>
               /\ last.result
               /\ Logged(last) => LoggedCount = 0
        /\ NullRows(Column(last)) = 1 => (last.result = ValuesDistinct(Column(last)))
\* active, NULL, NULL: the two NULL rows are the one duplicated group.
C26_Witness ==
    /\ last.op = "is_column_unique" /\ Logged(last) /\ ~last.result
    /\ Column(last) = <<Some("active"), NULL, NULL>>
    /\ LoggedCount = 1

\* ------------------------------------------------------------- C27
\* e is a column-enum call and d a distinct-values-in-set call on the same file
\* and column with the same list.
SameListChecked(e, d) ==
    /\ e.op = "is_column_enum" /\ d.op = "are_distinct_values_in_set"
    /\ e.paths = d.paths /\ e.cols = d.cols
    /\ e.args.enumValues = d.args.allowedValues
\* The two calls agree: one boolean, one error, and the distinct offending
\* values no more than the offending rows, none of the one when none of the other.
EnumAndDistinctAgree(e, d) ==
    /\ e.result = d.result /\ e.err = d.err
    /\ ReachedResult(e) = ReachedResult(d)
    /\ ReachedResult(e) =>
           /\ Get(d.val) <= Get(e.val)
           /\ (Get(d.val) = 0) = (Get(e.val) = 0)
\* The error_count of the record before the newest one and of the newest one.
CountsLogged(rows) ==
    <<Get(rows[Len(rows) - 1].additional_params).error_count,
      Get(rows[Len(rows)].additional_params).error_count>>

\* C27: column-enum and distinct-values-in-set, called one after the other (in
\* either order) on the same file and column with the same allowed list, return
\* the same boolean; the error_count the second logs is at most the one the
\* first logs when the first is column-enum, at least it when the first is
\* distinct-values-in-set, and the two are zero together.
C27_EnumAndDistinctAgree ==
    [][/\ SameListChecked(last, last') =>
             /\ EnumAndDistinctAgree(last, last')
             /\ (Logged(last) /\ Logged(last')) =>
                    /\ CountsLogged(store'.rows)[2] <= CountsLogged(store'.rows)[1]
                    /\ (CountsLogged(store'.rows)[2] = 0) = (CountsLogged(store'.rows)[1] = 0)
       /\ SameListChecked(last', last) =>
             /\ EnumAndDistinctAgree(last', last)
             /\ (Logged(last) /\ Logged(last')) =>
                    /\ CountsLogged(store'.rows)[1] <= CountsLogged(store'.rows)[2]
                    /\ (CountsLogged(store'.rows)[2] = 0) = (CountsLogged(store'.rows)[1] = 0)]_vars
\* 2, 2, NULL against the list <<1>>: both fail, two offending rows, one
\* offending value.
C27_Witness ==
    /\ last.op = "are_distinct_values_in_set" /\ Logged(last) /\ ~last.result
    /\ last.args.allowedValues = <<1>>
    /\ Len(store.rows) = 2
    /\ store.rows[1].data_quality_check_type = "is_column_enum"
    /\ store.rows[1].result = 0
    /\ Get(store.rows[1].additional_params).enum_values = <<1>>
    /\ CountsLogged(store.rows) = <<2, 1>>
    /\ \E i \in 1..Len(Rows(last)) : Rows(last)[i].a = NULL

\* ------------------------------------------------------------- C28
\* The ids of the records a store holds.
Ids(s) == {s.rows[i].id : i \in 1..Len(s.rows)}

\* C28: the store keeps the highest id it ever assigned (AUTOINCREMENT's
\* sequence): no record holds a higher id, no step lowers it, a clear included,
\* and every appended record gets an id above it and above every id in the
\* store; so a new id is above every id assigned before, cleared ones included.
C28_IdsNeverReused ==
    [][/\ \A id \in Ids(store) : id <= store.seq
       /\ \A id \in Ids(store') : id <= store'.seq
       /\ store'.seq >= store.seq
       /\ (clock' = clock /\ IsAppend(last')) =>
              /\ Len(store'.rows) = Len(store.rows) + 1
              /\ store'.rows[Len(store'.rows)].id > store.seq
              /\ \A id \in Ids(store) : store'.rows[Len(store'.rows)].id > id
       /\ (clock' = clock /\ last'.op = "clear_logs" /\ last'.err = "nil") =>
              store'.rows = <<>> /\ store'.seq = store.seq]_vars
\* An append, a clear and an append on a new store: the one record has id 2.
C28_Witness ==
    /\ last.op = "log" /\ last.err = "nil" /\ last.before = <<>>
    /\ Len(store.rows) = 1 /\ store.rows[1].id = 2 /\ store.seq = 2 /\ calls = 0

\* ------------------------------------------------------------- C29
\* The check the command invoked computed its boolean and failed to log it.
LogWriteFailed(l) == IsRun(l) /\ l.call.op \in CheckOps /\ l.call.err = "log"

\* C29: a check command whose check returns its boolean with a log-write error
\* prints the error line and nothing else: no pass/fail outcome line, whether
\* the boolean is true or false.
C29_LogErrorHidesOutcome ==
    LogWriteFailed(last) =>
        /\ ReachedResult(last.call)
        /\ last.printed = << <<"error", "check_error">> >>
        /\ \A i \in 1..Len(last.printed) : last.printed[i][2] # "outcome"
\* check-unique on a unique column: true, not logged, and only the error printed.
C29_Witness ==
    /\ LogWriteFailed(last) /\ last.call.result /\ last.argv.cmd = "check-unique"
    /\ last.printed = << <<"error", "check_error">> >>
    /\ store.rows = last.before
\* The same with a check that failed its rule.
C29_WitnessFalse ==
    /\ LogWriteFailed(last) /\ ~last.call.result /\ Get(last.call.val) > 0
    /\ last.printed = << <<"error", "check_error">> >>

\* ------------------------------------------------------------- C30
\* The invocations that returned with their record appended.
Appended == {i \in {1, 2} : Invocation(i).pc = "returned" /\ Invocation(i).err = "nil"}
\* The records appended since the two invocations started.
NewRows == SubSeq(store.rows, Len(last.before) + 1, Len(store.rows))
\* The record of an invocation that checked that column.
RecordOf(r, column) ==
    /\ r.data_quality_check_type = "is_column_unique"
    /\ r.additional_params # NULL
    /\ Get(r.additional_params).column = column

\* C30: however the steps of the two invocations interleave, the records the
\* store held before are still its first records, the records since are one
\* for each invocation whose append returned without error (each with that
\* invocation's column, result and timestamp), no two records share an id, and
\* no invocation tries its INSERT more than once: one that failed has returned
\* its error with its boolean and left no record.
C30_InterleavedAppends ==
    last.op = "invocations" =>
        /\ Len(store.rows) >= Len(last.before)
        /\ SubSeq(store.rows, 1, Len(last.before)) = last.before
        /\ Len(NewRows) = Cardinality(Appended)
        /\ \A i, j \in 1..Len(store.rows) : i # j => store.rows[i].id # store.rows[j].id
        /\ \A column \in NumCols :
               Cardinality({k \in 1..Len(NewRows) : RecordOf(NewRows[k], column)})
                   = Cardinality({i \in Appended : Invocation(i).column = column})
        /\ \A i \in Appended :
               \E k \in 1..Len(NewRows) :
                   /\ RecordOf(NewRows[k], Invocation(i).column)
                   /\ NewRows[k].result = (IF Invocation(i).result THEN 1 ELSE 0)
                   /\ NewRows[k].timestamp = Invocation(i).timestamp
        /\ \A i \in {1, 2} :
               /\ Invocation(i).attempts <= 1
               /\ Invocation(i).attempts = 1 <=>
                      (Invocation(i).pc = "returned" /\ Invocation(i).err \in {"nil", "log"})
\* Invocation 2 read the clock after invocation 1 and inserted before it; both
\* records are there, and invocation 1's has the later id and the earlier time.
C30_Witness ==
    /\ last.op = "invocations" /\ Appended = {1, 2} /\ last.before # <<>>
    /\ Invocation(1).column = "id" /\ Invocation(2).column = "grp"
    /\ Len(NewRows) = 2
    /\ RecordOf(NewRows[1], "grp") /\ RecordOf(NewRows[2], "id")
    /\ NewRows[1].timestamp > NewRows[2].timestamp
\* An append that failed while the other invocation's succeeded.
C30_WitnessFailed ==
    /\ last.op = "invocations" /\ Appended = {2}
    /\ Invocation(1).pc = "returned" /\ Invocation(1).err = "log" /\ Invocation(1).attempts = 1
    /\ Len(NewRows) = 1

====
